---- MODULE Spec2Model ----
(***************************************************************************)
(* Conversation orchestration of be-lumir: the chat graph of ChatAgent     *)
(* (synchronous and streaming), the agent graph of AgentGraph, and the     *)
(* tool dispatch of core/agent/node.py.                                    *)
(*                                                                         *)
(* Python values are encoded as follows.  A text is a TLA+ string.  The    *)
(* graph state (a dict) is a function whose DOMAIN is the set of keys      *)
(* present.  A value that is either None or a list is a tagged record      *)
(* (PyNone, PyList).  tool_results, which the code sets either to a dict   *)
(* or to a str, is tagged as well (PyDict, PyStr); a dict is the sequence  *)
(* of its items in insertion order.  The marks U+274C and U+26A0 of the    *)
(* error strings are written "[x]" and "[!]".                              *)
(***************************************************************************)
EXTENDS Integers, Sequences, FiniteSets, TLC

VARIABLES
    keepUndeclared, \* graph library: keys outside the declared schema survive between nodes
    mode,           \* "idle", "sync" (run_sync), "stream" (run_stream), "agent" (AgentGraph.run_stream)
    pc,             \* next graph node, or "idle", "END", "failed", "returned"
    state,          \* the graph state handed to the next node
    param,          \* arguments of the entry point
    executed,       \* names of the nodes executed so far, in order
    decision_text,  \* the response.content values the decision oracle returned, in order
    handed_plan,    \* the plan values that an execute_tools node handed to use_tools, in order
    log,            \* external calls made so far, in order
    raised,         \* message of an exception that escaped a node or an entry point, "" if none
    ret,            \* the value the entry point returned, as a one-element sequence; <<>> before
    chunks,         \* contents of the chunks read from the generation stream so far
    yielded,        \* fragments yielded by run_stream so far
    twin_pc,        \* paired runs only: next node of the streaming graph
    twin_state      \* paired runs only: state of the streaming graph

vars == <<keepUndeclared, mode, pc, state, param, executed, decision_text,
          handed_plan, log, raised, ret, chunks, yielded, twin_pc, twin_state>>

-----------------------------------------------------------------------------
(* Bounds *)

MaxCalls == 2      \* tool calls requested by one LLM response
MaxChunks == 2     \* chunks of one generation stream

-----------------------------------------------------------------------------
(* Texts *)

ErrMark == "[x]"
WarnMark == "[!]"

Whitespace == {" ", "\n", "\t"}

UpperCase == "ABCDEFGHIJKLMNOPQRSTUVWXYZ"
LowerCase == "abcdefghijklmnopqrstuvwxyz"

CharAt(s, i) == SubSeq(s, i, i)

\* str.lower() on one character
LowerChar(c) ==
    IF \E i \in 1..Len(UpperCase) : CharAt(UpperCase, i) = c
    THEN CharAt(LowerCase, CHOOSE i \in 1..Len(UpperCase) : CharAt(UpperCase, i) = c)
    ELSE c

RECURSIVE Lower(_)
Lower(s) == IF Len(s) = 0 THEN "" ELSE LowerChar(CharAt(s, 1)) \o Lower(Tail(s))

RECURSIVE LStrip(_)
LStrip(s) ==
    IF Len(s) > 0 /\ CharAt(s, 1) \in Whitespace THEN LStrip(Tail(s)) ELSE s

RECURSIVE RStrip(_)
RStrip(s) ==
    IF Len(s) > 0 /\ CharAt(s, Len(s)) \in Whitespace
    THEN RStrip(SubSeq(s, 1, Len(s) - 1)) ELSE s

\* str.strip()
Strip(s) == RStrip(LStrip(s))

\* str.startswith
StartsWith(s, p) == Len(s) >= Len(p) /\ SubSeq(s, 1, Len(p)) = p

RECURSIVE Join(_, _)
\* sep.join(parts)
Join(sep, parts) ==
    IF Len(parts) = 0 THEN ""
    ELSE IF Len(parts) = 1 THEN parts[1]
    ELSE parts[1] \o sep \o Join(sep, Tail(parts))

-----------------------------------------------------------------------------
(* Python values *)

PyNone == [t |-> "none"]
PyList(items) == [t |-> "list", v |-> items]
PyDict(items) == [t |-> "dict", v |-> items]
PyStr(s) == [t |-> "str", v |-> s]

\* bool(x) of a value that is None or a list
ListTruthy(x) == x.t = "list" /\ Len(x.v) > 0

Has(s, k) == k \in DOMAIN s
Get(s, k, d) == IF k \in DOMAIN s THEN s[k] ELSE d
Set(s, k, v) == [x \in (DOMAIN s) \cup {k} |-> IF x = k THEN v ELSE s[x]]
Restrict(s, keys) == [x \in (DOMAIN s) \cap keys |-> s[x]]

\* dict item assignment results[name] = value on an insertion-ordered dict
DictPut(items, name, value) ==
    IF \E i \in 1..Len(items) : items[i][1] = name
    THEN [i \in 1..Len(items) |-> IF items[i][1] = name THEN <<name, value>> ELSE items[i]]
    ELSE Append(items, <<name, value>>)

ToolCall(tool_name, parameters, result, success) ==
    [tool_name |-> tool_name, parameters |-> parameters, result |-> result, success |-> success]


Ok(v) == [t |-> "ok", v |-> v]
Raise(e) == [t |-> "raise", e |-> e]

\* what a node function gives back to the graph: the state it returns, the
\* external calls it made, and the message of an exception it let escape
Returned(s, calls) == [st |-> s, log |-> calls, exc |-> ""]
Escaped(s, calls, e) == [st |-> s, log |-> calls, exc |-> e]

-----------------------------------------------------------------------------
(* Chat graph nodes (chat.py) *)

EmptyProfile == [user_id |-> "", session_id |-> ""]

\* _memory_decision_node without its outer except block: a failure of the oracle escapes
_memory_decision_node_reraise(s, load, dec) ==
    LET user_profile == Get(s, "user_profile", EmptyProfile)
        ids == user_profile.user_id # "" /\ user_profile.session_id # ""
        s1 == IF ids /\ load.t = "ok" THEN Set(s, "memory_conversation", load.v) ELSE s
        calls == (IF ids THEN <<"get_history">> ELSE <<>>) \o <<"llm.invoke:memory_decision">>
    IN  IF dec.t = "raise"
        THEN Escaped(s1, calls, dec.e)
        ELSE LET use_memory == (Lower(Strip(dec.v)) = "true")
             IN  Returned(Set(Set(s1, "use_memory", use_memory),
                              "current_step",
                              IF use_memory THEN "use_memory" ELSE "analyze_user_question"),
                          calls)

\* _memory_decision_node accepting any response that starts with the token
_memory_decision_node_prefix(s, load, dec) ==
    LET user_profile == Get(s, "user_profile", EmptyProfile)
        ids == user_profile.user_id # "" /\ user_profile.session_id # ""
        s1 == IF ids /\ load.t = "ok" THEN Set(s, "memory_conversation", load.v) ELSE s
        calls == (IF ids THEN <<"get_history">> ELSE <<>>) \o <<"llm.invoke:memory_decision">>
    IN  IF dec.t = "raise"
        THEN Returned(Set(Set(s1, "use_memory", FALSE),
                          "current_step", "analyze_user_question"), calls)
        ELSE LET use_memory == StartsWith(Lower(Strip(dec.v)), "true")
             IN  Returned(Set(Set(s1, "use_memory", use_memory),
                              "current_step",
                              IF use_memory THEN "use_memory" ELSE "analyze_user_question"),
                          calls)

_memory_decision_node(s, load, dec) ==
    LET user_profile == Get(s, "user_profile", EmptyProfile)
        ids == user_profile.user_id # "" /\ user_profile.session_id # ""
        s1 == IF ids /\ load.t = "ok" THEN Set(s, "memory_conversation", load.v) ELSE s
        calls == (IF ids THEN <<"get_history">> ELSE <<>>) \o <<"llm.invoke:memory_decision">>
    IN  IF dec.t = "raise"
        THEN Returned(Set(Set(s1, "use_memory", FALSE),
                          "current_step", "analyze_user_question"), calls)
        ELSE LET text == Lower(Strip(dec.v))
                 use_memory == (text = "true")
             IN  Returned(Set(Set(s1, "use_memory", use_memory),
                              "current_step",
                              IF use_memory THEN "use_memory" ELSE "analyze_user_question"),
                          calls)

RECURSIVE MemoryLines(_)
MemoryLines(msgs) ==
    IF Len(msgs) = 0 THEN <<>>
    ELSE <<msgs[1].role \o ": " \o msgs[1].content>> \o MemoryLines(Tail(msgs))

_use_memory_node(s) ==
    LET memory_conversation == Get(s, "memory_conversation", PyList(<<>>))
        memory_context == IF ListTruthy(memory_conversation)
                          THEN Join("\n", MemoryLines(memory_conversation.v))
                          ELSE ""
    IN  Returned(Set(Set(s, "memory_context", memory_context),
                     "current_step", "analyze_user_question"), <<>>)

\* node.py chat_plan: the plan text, or the exception of the planning call
chat_plan(s, planning) ==
    IF ~Has(s, "llm") THEN Raise("LLM not found in state")
    ELSE IF planning.t = "raise" THEN planning
    ELSE Ok(Strip(planning.v))

_analyze_user_question_node(s, planning) ==
    LET user_question == Get(s, "user_question", "")
        s1 == Set(s, "llm", "llm")
        plan == chat_plan(s1, planning)
        calls == <<"llm.invoke:chat_plan">>
    IN  IF plan.t = "raise"
        THEN Returned(Set(Set(s1, "analysis_result", "Analyzed question: " \o user_question),
                          "current_step", "search_info"), calls)
        ELSE Returned(Set(Set(Set(s1, "plan", plan.v),
                              "analysis_result",
                              IF Len(plan.v) > 100
                              THEN "Plan generated: " \o SubSeq(plan.v, 1, 100) \o "..."
                              ELSE plan.v),
                          "current_step", "search_info"), calls)

MaxShown == 5    \* search_data[:5]

RECURSIVE FormatItems(_, _)
\* the loop of _search_info_node over enumerate(search_data[:5], 1)
FormatItems(items, i) ==
    IF i > Len(items) THEN ""
    ELSE ToString(i) \o ". " \o items[i] \o "\n\n" \o FormatItems(items, i + 1)

\* the result string _search_info_node derives from the dict search_knowledge_base returned
SearchResultString(result) ==
    IF result.success
    THEN IF Len(result.data) > 0
         THEN Strip("Found " \o ToString(Len(result.data)) \o " results:\n\n"
                    \o FormatItems(SubSeq(result.data, 1,
                                          IF Len(result.data) < MaxShown
                                          THEN Len(result.data) ELSE MaxShown), 1))
         ELSE "No relevant information found in knowledge base."
    ELSE result.message

_search_info_node(s, search) ==
    LET user_question == Get(s, "user_question", "")
    IN  IF Has(s, "plan") /\ s["plan"] # ""
        THEN Returned(Set(s, "current_step", "execute_tools"), <<>>)
        ELSE LET calls == <<"invoke:search_knowledge_base">>
                 tool_call ==
                     IF search.t = "raise"
                     THEN ToolCall("search_knowledge_base", <<<<"question", user_question>>>>,
                                   "Search error: " \o search.e, FALSE)
                     ELSE ToolCall("search_knowledge_base", <<<<"question", user_question>>>>,
                                   SearchResultString(search.v), TRUE)
             IN  Returned(Set(Set(s, "tool_calls", <<tool_call>>),
                              "current_step", "generate_response"), calls)

-----------------------------------------------------------------------------
(* Tool dispatch (node.py) *)

\* tools declared with @tool in core/agent/tools.py: objects with .name and .invoke
DecoratedTools == {"search_knowledge_base", "get_mapping_keyword", "calculate_tbi_indicators",
                   "format_live_trading_table", "format_trade_account_table",
                   "format_trade_history_table"}

RECURSIVE ExecLoop_abort(_, _, _, _, _)
\* the loop of execute_tool_calls with the try block around the whole loop: the
\* first tool that raises ends the dispatch
ExecLoop_abort(tool_calls, i, tool_registry, outcome, acc) ==
    IF i > Len(tool_calls) THEN acc
    ELSE LET tool_name == tool_calls[i]
         IN  IF tool_name \notin tool_registry
             THEN ExecLoop_abort(tool_calls, i + 1, tool_registry, outcome,
                                 [results |-> DictPut(acc.results, tool_name,
                                                      WarnMark \o " Tool '" \o tool_name
                                                      \o "' is not registered."),
                                  log |-> acc.log])
             ELSE LET out == IF tool_name \in DecoratedTools THEN outcome[i]
                             ELSE Raise("'function' object has no attribute 'invoke'")
                  IN  IF out.t = "ok"
                      THEN ExecLoop_abort(tool_calls, i + 1, tool_registry, outcome,
                                          [results |-> DictPut(acc.results, tool_name, out.v),
                                           log |-> Append(acc.log, "invoke:" \o tool_name)])
                      ELSE [results |-> DictPut(acc.results, tool_name,
                                                ErrMark \o " Error executing " \o tool_name
                                                \o ": " \o out.e),
                            log |-> Append(acc.log, "invoke:" \o tool_name)]

RECURSIVE ExecLoop(_, _, _, _, _)
\* the for loop of execute_tool_calls from call i on; acc is (results, calls attempted)
ExecLoop(tool_calls, i, tool_registry, outcome, acc) ==
    IF i > Len(tool_calls) THEN acc
    ELSE LET tool_name == tool_calls[i]
         IN  IF tool_name \notin tool_registry
             THEN ExecLoop(tool_calls, i + 1, tool_registry, outcome,
                           [results |-> DictPut(acc.results, tool_name,
                                                WarnMark \o " Tool '" \o tool_name
                                                \o "' is not registered."),
                            log |-> acc.log])
             ELSE LET out == IF tool_name \in DecoratedTools THEN outcome[i]
                             ELSE Raise("'function' object has no attribute 'invoke'")
                      value == IF out.t = "ok" THEN out.v
                               ELSE ErrMark \o " Error executing " \o tool_name \o ": " \o out.e
                  IN  ExecLoop(tool_calls, i + 1, tool_registry, outcome,
                               [results |-> DictPut(acc.results, tool_name, value),
                                log |-> Append(acc.log, "invoke:" \o tool_name)])

\* execute_tool_calls without the early return for a response that requests nothing
execute_tool_calls_no_info(tool_calls, tool_registry, outcome) ==
    ExecLoop(tool_calls, 1, tool_registry, outcome, [results |-> <<>>, log |-> <<>>])

\* execute_tool_calls(response_message, tool_registry): tool_calls are the names the
\* response requests, outcome[i] is what the i-th requested tool does when invoked
execute_tool_calls(tool_calls, tool_registry, outcome) ==
    IF Len(tool_calls) = 0
    THEN [results |-> <<<<"info", "No tool calls found in response.">>>>, log |-> <<>>]
    ELSE ExecLoop(tool_calls, 1, tool_registry, outcome, [results |-> <<>>, log |-> <<>>])

\* use_tools testing "plan is None" instead of "not plan": an empty plan passes
use_tools_plan_is_none(s, response, outcome) ==
    IF ~Has(s, "llm") THEN [exc |-> "LLM not found in state", results |-> <<>>, log |-> <<>>]
    ELSE IF ~Has(s, "plan")
    THEN [exc |-> "Plan not found in state", results |-> <<>>, log |-> <<>>]
    ELSE IF ~Has(s, "list_tools") \/ Len(s["list_tools"]) = 0
    THEN [exc |-> "List tools not found in state", results |-> <<>>, log |-> <<>>]
    ELSE IF response.t = "raise"
    THEN [exc |-> response.e, results |-> <<>>, log |-> <<"bind_tools", "llm.invoke:use_tools">>]
    ELSE LET tool_registry == {s["list_tools"][i] : i \in 1..Len(s["list_tools"])}
             r == execute_tool_calls(response.v, tool_registry, outcome)
         IN  [exc |-> "", results |-> r.results,
              log |-> <<"bind_tools", "llm.invoke:use_tools">> \o r.log]

\* use_tools(state): response is the outcome of model_with_tools.invoke
use_tools(s, response, outcome) ==
    IF ~Has(s, "llm") THEN [exc |-> "LLM not found in state", results |-> <<>>, log |-> <<>>]
    ELSE IF ~Has(s, "plan") \/ s["plan"] = ""
    THEN [exc |-> "Plan not found in state", results |-> <<>>, log |-> <<>>]
    ELSE IF ~Has(s, "list_tools") \/ Len(s["list_tools"]) = 0
    THEN [exc |-> "List tools not found in state", results |-> <<>>, log |-> <<>>]
    ELSE IF response.t = "raise"
    THEN [exc |-> response.e, results |-> <<>>, log |-> <<"bind_tools", "llm.invoke:use_tools">>]
    ELSE LET tool_registry == {s["list_tools"][i] : i \in 1..Len(s["list_tools"])}
             r == execute_tool_calls(response.v, tool_registry, outcome)
         IN  [exc |-> "", results |-> r.results,
              log |-> <<"bind_tools", "llm.invoke:use_tools">> \o r.log]

-----------------------------------------------------------------------------
(* Chat graph nodes, continued *)

\* the list _execute_tools_node stores in state["list_tools"]
ChatTools == <<"search_knowledge_base", "get_mapping_keyword", "get_memory_context">>

RECURSIVE ToolCallsOf(_)
\* the ToolCall records _execute_tools_node builds from tool_results.items()
ToolCallsOf(items) ==
    IF Len(items) = 0 THEN <<>>
    ELSE <<ToolCall(items[1][1], <<>>, items[1][2], ~StartsWith(items[1][2], ErrMark))>>
         \o ToolCallsOf(Tail(items))

\* state as _execute_tools_node passes it to use_tools
ChatToolState(s) ==
    LET s1 == IF ~Has(s, "llm") THEN Set(s, "llm", "llm")
              ELSE IF ~Has(s, "plan")
                   THEN Set(s, "plan",
                            "Search for information about: " \o Get(s, "user_question", ""))
                   ELSE s
    IN  Set(s1, "list_tools", ChatTools)

_execute_tools_node(s, response, outcome) ==
    LET s2 == ChatToolState(s)
        r == use_tools(s2, response, outcome)
    IN  IF r.exc # ""
        THEN Returned(Set(Set(Set(s2, "tool_results", PyStr("Tool execution error: " \o r.exc)),
                              "tool_calls", <<>>),
                          "current_step", "generate_response"), r.log)
        ELSE Returned(Set(Set(Set(s2, "tool_results", PyDict(r.results)),
                              "tool_calls", ToolCallsOf(r.results)),
                          "current_step", "generate_response"), r.log)

\* _generate_response_node whose except block does not mark the run complete
_generate_response_node_incomplete(s, generation) ==
    LET calls == <<"llm.invoke:generate_response">>
    IN  IF generation.t = "raise"
        THEN Returned(Set(s, "final_response", "Error generating response: " \o generation.e),
                      calls)
        ELSE Returned(Set(Set(s, "final_response", generation.v), "is_complete", TRUE), calls)

_generate_response_node(s, generation) ==
    LET calls == <<"llm.invoke:generate_response">>
    IN  IF generation.t = "raise"
        THEN Returned(Set(Set(s, "final_response", "Error generating response: " \o generation.e),
                          "is_complete", TRUE), calls)
        ELSE Returned(Set(Set(s, "final_response", generation.v), "is_complete", TRUE), calls)

-----------------------------------------------------------------------------
(* Graphs *)

\* keys of WorkflowChatState
WorkflowChatState ==
    {"user_question", "messages", "conversation_history", "user_profile", "use_memory",
     "memory_context", "tool_calls", "tool_results", "memory_conversation", "llm",
     "final_response", "current_step", "is_complete"}

\* keys of WorkflowAgentState
WorkflowAgentState ==
    {"messages", "conversation_history", "user_profile", "use_memory", "reasoning", "plan",
     "tools_called", "llm", "final_response", "current_step", "is_complete"}

\* the state the graph hands from one node to the next
Handover(s, schema) == IF keepUndeclared THEN s ELSE Restrict(s, schema)

\* _create_graph with search_info wired to the step its current_step names
_create_graph_skip_tools(node, s) ==
    CASE node = "memory_decision" ->
             IF Get(s, "use_memory", FALSE) THEN "use_memory" ELSE "analyze_user_question"
      [] node = "use_memory" -> "analyze_user_question"
      [] node = "analyze_user_question" -> "search_info"
      [] node = "search_info" ->
             IF Get(s, "current_step", "") = "generate_response"
             THEN "generate_response" ELSE "execute_tools"
      [] node = "execute_tools" -> "generate_response"
      [] node = "generate_response" -> "END"

\* edges of ChatAgent._create_graph
_create_graph(node, s) ==
    CASE node = "memory_decision" ->
             IF Get(s, "use_memory", FALSE) THEN "use_memory" ELSE "analyze_user_question"
      [] node = "use_memory" -> "analyze_user_question"
      [] node = "analyze_user_question" -> "search_info"
      [] node = "search_info" -> "execute_tools"
      [] node = "execute_tools" -> "generate_response"
      [] node = "generate_response" -> "END"

\* _create_graph_without_generation with the search_info node left out
_create_graph_without_search(node, s) ==
    CASE node = "memory_decision" ->
             IF Get(s, "use_memory", FALSE) THEN "use_memory" ELSE "analyze_user_question"
      [] node = "use_memory" -> "analyze_user_question"
      [] node = "analyze_user_question" -> "execute_tools"
      [] node = "search_info" -> "execute_tools"
      [] node = "execute_tools" -> "END"

\* edges of ChatAgent._create_graph_without_generation
_create_graph_without_generation(node, s) ==
    CASE node = "memory_decision" ->
             IF Get(s, "use_memory", FALSE) THEN "use_memory" ELSE "analyze_user_question"
      [] node = "use_memory" -> "analyze_user_question"
      [] node = "analyze_user_question" -> "search_info"
      [] node = "search_info" -> "execute_tools"
      [] node = "execute_tools" -> "END"

-----------------------------------------------------------------------------
(* Agent graph nodes (agent.py) *)

\* self.list_tools of AgentGraph
AgentTools == <<"search_knowledge_base", "get_mapping_keyword", "calculate_tbi_indicators",
                "format_live_trading_table", "format_trade_account_table",
                "format_trade_history_table">>

ReasoningStep(step, reasoning) == [step |-> step, reasoning |-> reasoning]

\* sub in s
Contains(s, sub) ==
    \E i \in 1..(Len(s) - Len(sub) + 1) : SubSeq(s, i, i + Len(sub) - 1) = sub

\* AgentGraph.get_memory_from_session; user_info is self.user_info
get_memory_from_session(s, user_info, load) ==
    IF user_info.user_id # "" /\ user_info.session_id # ""
    THEN Set(s, "conversation_history", IF load.t = "ok" THEN load.v.v ELSE <<>>)
    ELSE s

\* variant: a failure of the reasoning call leaves the node
_reasoning_step_node_reraise(s, user_info, load, reasoning) ==
    LET s1 == get_memory_from_session(s, user_info, load)
        s2 == Set(Set(s1, "llm", "llm"), "user_info", Get(s1, "user_info", user_info))
        calls == (IF user_info.user_id # "" /\ user_info.session_id # ""
                  THEN <<"get_history">> ELSE <<>>) \o <<"llm.invoke:reasoning">>
    IN  IF reasoning.t = "raise"
        THEN Escaped(s2, calls, reasoning.e)
        ELSE Returned(Set(Set(s2, "reasoning",
                              <<ReasoningStep("reasoning_step", reasoning.v)>>),
                          "current_step", "execute_tools"), calls)

_reasoning_step_node(s, user_info, load, reasoning) ==
    LET s1 == get_memory_from_session(s, user_info, load)
        s2 == Set(Set(s1, "llm", "llm"), "user_info", Get(s1, "user_info", user_info))
        calls == (IF user_info.user_id # "" /\ user_info.session_id # ""
                  THEN <<"get_history">> ELSE <<>>) \o <<"llm.invoke:reasoning">>
    IN  IF reasoning.t = "raise"
        THEN Returned(Set(Set(s2, "reasoning", <<ReasoningStep("reasoning_step", reasoning.e)>>),
                          "current_step", "execute_tools"), calls)
        ELSE LET s3 == IF Contains(reasoning.v, "\"use_memory\": false")
                       THEN Set(s2, "conversation_history", <<>>) ELSE s2
             IN  Returned(Set(Set(s3, "reasoning",
                                  <<ReasoningStep("reasoning_step", reasoning.v)>>),
                              "current_step", "execute_tools"), calls)

RECURSIVE ReasoningParts(_)
\* the non-empty reasoning texts of state["reasoning"]
ReasoningParts(reasonings) ==
    IF Len(reasonings) = 0 THEN <<>>
    ELSE (IF reasonings[1].reasoning # "" THEN <<reasonings[1].reasoning>> ELSE <<>>)
         \o ReasoningParts(Tail(reasonings))

\* state as AgentGraph._execute_tools_node passes it to use_tools
AgentToolState(s) ==
    LET s1 == Set(s, "llm", "llm")
        joined == Join("\n", ReasoningParts(Get(s1, "reasoning", <<>>)))
        instruction == IF joined # "" THEN joined ELSE Get(s1, "user_question", "")
        s2 == IF ~Has(s1, "plan") \/ s1["plan"] = "" THEN Set(s1, "plan", instruction) ELSE s1
    IN  Set(s2, "list_tools",
            IF Has(s2, "list_tools") /\ Len(s2["list_tools"]) > 0
            THEN s2["list_tools"] ELSE AgentTools)

_agent_execute_tools_node(s, response, outcome) ==
    LET s2 == AgentToolState(s)
        r == use_tools(s2, response, outcome)
    IN  IF r.exc # ""
        THEN Returned(Set(Set(Set(s2, "tool_results", PyDict(<<<<"error", r.exc>>>>)),
                              "tool_calls", <<>>),
                          "current_step", "response_generation"), r.log)
        ELSE Returned(Set(s2, "tools_called", PyDict(r.results)), r.log)

\* edges of AgentGraph.create_graph
create_graph(node, s) ==
    CASE node = "reasoning_step" -> "execute_tools"
      [] node = "execute_tools" -> "END"

-----------------------------------------------------------------------------
(* Inputs and outcomes of the external calls *)

Message(role, content) == [role |-> role, content |-> content]

StoredTurns == <<Message("user", "hi"), Message("assistant", "hello")>>

FullProfile == [user_id |-> "u1", session_id |-> "s1"]

SuppliedCall == ToolCall("get_mapping_keyword", <<>>, "supplied result", TRUE)

\* arguments of run_sync / run_stream
Requests ==
    { [users_question |-> "What is TBI?", history |-> <<>>, tool_calls |-> <<>>,
       user_profile |-> EmptyProfile, language |-> "vietnamese"],
      [users_question |-> "What is TBI?", history |-> StoredTurns, tool_calls |-> <<>>,
       user_profile |-> FullProfile, language |-> "english"],
      [users_question |-> "", history |-> <<>>, tool_calls |-> <<SuppliedCall>>,
       user_profile |-> FullProfile, language |-> "vietnamese"],
      [users_question |-> "What is TBI?", history |-> StoredTurns,
       tool_calls |-> <<SuppliedCall>>, user_profile |-> EmptyProfile,
       language |-> "english"] }

\* get_history as seen by a node: the stored turns, or an exception of the event-loop plumbing
LoadOutcomes == {Ok(PyList(<<>>)), Ok(PyList(StoredTurns)), Raise("This event loop is already running")}

DecisionTexts == {"true", "TRUE", " True\n", "false", "yes", "1", "true.", "", "tr ue", "not true"}

DecisionOutcomes == {Ok(t) : t \in DecisionTexts} \cup {Raise("decision oracle failed")}

PlanningOutcomes == {Ok(" 1. search the knowledge base\n"), Ok("  \n"), Ok(""),
                     Raise("planning failed")}

SearchItems(n) == [i \in 1..n |-> "passage " \o ToString(i)]

SearchOutcomes ==
    { Ok([success |-> TRUE, data |-> SearchItems(n), message |-> "completed"])
        : n \in {0, 1, MaxShown + 1} }
    \cup { Ok([success |-> FALSE, data |-> <<>>,
               message |-> "Knowledge base search failed: timeout"]),
           Raise("validation error") }

\* tool names an LLM response can request: two decorated tools that both graphs
\* register, and get_memory_context, a plain function that the chat graph
\* registers and the agent graph does not
RequestableTools == {"search_knowledge_base", "get_mapping_keyword", "get_memory_context"}

CallLists == UNION { [1..n -> RequestableTools] : n \in 0..MaxCalls }

ResponseOutcomes == {Ok(c) : c \in CallLists} \cup {Raise("tool LLM failed")}

\* what the tools requested by a response do when invoked: the i-th requested
\* tool returns a result of its own or raises
OutcomeMaps(response) ==
    LET n == IF response.t = "ok" THEN Len(response.v) ELSE 0
    IN  { [i \in 1..n |-> IF i \in failing THEN Raise("boom")
                                            ELSE Ok("result " \o ToString(i))]
            : failing \in SUBSET (1..n) }

GenerationOutcomes == {Ok("The answer."), Ok(""), Raise("generation failed")}

ReasoningOutcomes == {Ok("{\"use_memory\": false, \"tools\": []}"), Ok("use the knowledge base"),
                      Ok(""), Raise("reasoning failed")}

ChunkContents == {"tok", ""}

\* arguments of AgentGraph.run_stream, with the user_info the graph was constructed with
AgentRequests ==
    { [user_question |-> "What is TBI?", user_profile |-> EmptyProfile,
       language |-> "vietnamese", user_info |-> FullProfile],
      [user_question |-> "", user_profile |-> FullProfile,
       language |-> "english", user_info |-> FullProfile],
      [user_question |-> "What is TBI?", user_profile |-> FullProfile,
       language |-> "english", user_info |-> EmptyProfile] }

-----------------------------------------------------------------------------
(* Entry points and graph execution *)

\* initial_state of run_sync and of run_stream
ChatInitialState(req) ==
    [user_question |-> req.users_question,
     conversation_history |-> req.history,
     tool_calls |-> req.tool_calls,
     user_profile |-> req.user_profile,
     current_step |-> "memory_decision",
     is_complete |-> FALSE,
     llm |-> "llm",
     memory_conversation |-> PyNone,
     language |-> req.language]

\* initial_state of AgentGraph.run_stream; load is the outcome of its get_history
AgentInitialState(req, load) ==
    [user_question |-> req.user_question,
     conversation_history |->
         IF req.user_info.user_id # "" /\ req.user_info.session_id # "" /\ load.t = "ok"
         THEN load.v.v ELSE <<>>,
     user_profile |-> req.user_profile,
     current_step |-> "reasoning_step",
     is_complete |-> FALSE,
     llm |-> "llm",
     memory_conversation |-> PyNone,
     language |-> req.language,
     user_info |-> req.user_info]

Schema == IF mode = "agent" THEN WorkflowAgentState ELSE WorkflowChatState

Edges(node, s) ==
    IF mode = "sync" THEN _create_graph(node, s)
    ELSE IF mode = "stream" THEN _create_graph_without_generation(node, s)
    ELSE create_graph(node, s)

Init ==
    /\ keepUndeclared \in BOOLEAN
    /\ mode = "idle"
    /\ pc = "idle"
    /\ state = <<>>
    /\ param = <<>>
    /\ executed = <<>>
    /\ decision_text = <<>>
    /\ handed_plan = <<>>
    /\ log = <<>>
    /\ raised = ""
    /\ ret = <<>>
    /\ chunks = <<>>
    /\ yielded = <<>>
    /\ twin_pc = "idle"
    /\ twin_state = <<>>

run_sync ==
    /\ pc = "idle"
    /\ \E req \in Requests :
        /\ param' = req
        /\ state' = Handover(ChatInitialState(req), WorkflowChatState)
    /\ mode' = "sync"
    /\ pc' = "memory_decision"
    /\ UNCHANGED <<twin_pc, twin_state, keepUndeclared, executed, decision_text, handed_plan, log, raised, ret,
                   chunks, yielded>>

run_stream ==
    /\ pc = "idle"
    /\ \E req \in Requests :
        /\ param' = req
        /\ state' = Handover(ChatInitialState(req), WorkflowChatState)
    /\ mode' = "stream"
    /\ pc' = "memory_decision"
    /\ UNCHANGED <<twin_pc, twin_state, keepUndeclared, executed, decision_text, handed_plan, log, raised, ret,
                   chunks, yielded>>

agent_run_stream ==
    /\ pc = "idle"
    /\ \E req \in AgentRequests, load \in LoadOutcomes :
        /\ param' = req
        /\ state' = Handover(AgentInitialState(req, load), WorkflowAgentState)
        /\ log' = IF req.user_info.user_id # "" /\ req.user_info.session_id # ""
                  THEN Append(log, "get_history") ELSE log
    /\ mode' = "agent"
    /\ pc' = "reasoning_step"
    /\ UNCHANGED <<twin_pc, twin_state, keepUndeclared, executed, decision_text, handed_plan, raised, ret,
                   chunks, yielded>>

\* the graph runs one node: r is what the node function gave back
Advance(node, r) ==
    /\ executed' = Append(executed, node)
    /\ log' = log \o r.log
    /\ IF r.exc # ""
       THEN /\ raised' = r.exc
            /\ pc' = "failed"
            /\ state' = state
       ELSE /\ raised' = raised
            /\ state' = Handover(r.st, Schema)
            /\ pc' = Edges(node, Handover(r.st, Schema))

memory_decision ==
    /\ mode \in {"sync", "stream"}
    /\ pc = "memory_decision"
    /\ \E load \in LoadOutcomes, dec \in DecisionOutcomes :
        /\ Advance("memory_decision", _memory_decision_node(state, load, dec))
        /\ decision_text' = IF dec.t = "ok" THEN Append(decision_text, dec.v)
                            ELSE decision_text
    /\ UNCHANGED <<twin_pc, twin_state, keepUndeclared, mode, param, handed_plan, ret, chunks, yielded>>

use_memory ==
    /\ mode \in {"sync", "stream"}
    /\ pc = "use_memory"
    /\ Advance("use_memory", _use_memory_node(state))
    /\ UNCHANGED <<twin_pc, twin_state, keepUndeclared, mode, param, decision_text, handed_plan, ret, chunks,
                   yielded>>

analyze_user_question ==
    /\ mode \in {"sync", "stream"}
    /\ pc = "analyze_user_question"
    /\ \E planning \in PlanningOutcomes :
        Advance("analyze_user_question", _analyze_user_question_node(state, planning))
    /\ UNCHANGED <<twin_pc, twin_state, keepUndeclared, mode, param, decision_text, handed_plan, ret, chunks,
                   yielded>>

search_info ==
    /\ mode \in {"sync", "stream"}
    /\ pc = "search_info"
    /\ \E search \in SearchOutcomes :
        Advance("search_info", _search_info_node(state, search))
    /\ UNCHANGED <<twin_pc, twin_state, keepUndeclared, mode, param, decision_text, handed_plan, ret, chunks,
                   yielded>>

\* the plan in the state an execute_tools node passes to use_tools
HandedPlan(s) == IF Has(s, "plan") THEN PyStr(s["plan"]) ELSE PyNone

execute_tools ==
    /\ mode \in {"sync", "stream"}
    /\ pc = "execute_tools"
    /\ \E response \in ResponseOutcomes : \E outcome \in OutcomeMaps(response) :
        Advance("execute_tools", _execute_tools_node(state, response, outcome))
    /\ handed_plan' = Append(handed_plan, HandedPlan(ChatToolState(state)))
    /\ UNCHANGED <<twin_pc, twin_state, keepUndeclared, mode, param, decision_text, ret, chunks, yielded>>

generate_response ==
    /\ mode = "sync"
    /\ pc = "generate_response"
    /\ \E generation \in GenerationOutcomes :
        Advance("generate_response", _generate_response_node(state, generation))
    /\ UNCHANGED <<twin_pc, twin_state, keepUndeclared, mode, param, decision_text, handed_plan, ret, chunks,
                   yielded>>

reasoning_step ==
    /\ mode = "agent"
    /\ pc = "reasoning_step"
    /\ \E load \in LoadOutcomes, reasoning \in ReasoningOutcomes :
        Advance("reasoning_step",
                _reasoning_step_node(state, param.user_info, load, reasoning))
    /\ UNCHANGED <<twin_pc, twin_state, keepUndeclared, mode, param, decision_text, handed_plan, ret, chunks,
                   yielded>>

agent_execute_tools ==
    /\ mode = "agent"
    /\ pc = "execute_tools"
    /\ \E response \in ResponseOutcomes : \E outcome \in OutcomeMaps(response) :
        Advance("execute_tools", _agent_execute_tools_node(state, response, outcome))
    /\ handed_plan' = Append(handed_plan, HandedPlan(AgentToolState(state)))
    /\ UNCHANGED <<twin_pc, twin_state, keepUndeclared, mode, param, decision_text, ret, chunks, yielded>>

\* run_sync after graph.invoke: the return statements of its try and except blocks
run_sync_return ==
    /\ mode = "sync"
    /\ pc \in {"END", "failed"}
    /\ ret' = <<IF pc = "failed" THEN "Error: " \o raised
                ELSE IF Has(state, "final_response") /\ state["final_response"] # ""
                     THEN state["final_response"]
                     ELSE "No response generated">>
    /\ pc' = "returned"
    /\ UNCHANGED <<twin_pc, twin_state, keepUndeclared, mode, state, param, executed, decision_text,
                   handed_plan, log, raised, chunks, yielded>>

\* ChatAgent.run_stream after the graph: builds the prompt and opens the generation stream
open_stream ==
    /\ mode = "stream"
    /\ pc \in {"END", "failed"}
    /\ IF pc = "failed"
       THEN /\ yielded' = Append(yielded, "Error: " \o raised)
            /\ pc' = "returned"
            /\ log' = log
       ELSE IF DOMAIN state = {}
       THEN /\ yielded' = Append(yielded, "No response generated")
            /\ pc' = "returned"
            /\ log' = log
       ELSE IF Get(state, "memory_conversation", PyList(<<>>)).t = "none"
       THEN /\ yielded' = Append(yielded, "Error: 'NoneType' object is not iterable")
            /\ pc' = "returned"
            /\ log' = log
       ELSE /\ yielded' = yielded
            /\ pc' = "streaming"
            /\ log' = Append(log, "llm.astream")
    /\ UNCHANGED <<twin_pc, twin_state, keepUndeclared, mode, state, param, executed, decision_text,
                   handed_plan, raised, ret, chunks>>

\* AgentGraph.run_stream after the graph
agent_open_stream ==
    /\ mode = "agent"
    /\ pc \in {"END", "failed"}
    /\ IF pc = "failed"
       THEN /\ yielded' = Append(yielded, "Error: " \o raised)
            /\ pc' = "returned"
            /\ log' = log
       ELSE IF DOMAIN state = {}
       THEN /\ yielded' = Append(yielded, "No response generated")
            /\ pc' = "returned"
            /\ log' = log
       ELSE /\ yielded' = yielded
            /\ pc' = "streaming"
            /\ log' = Append(log, "llm.astream")
    /\ UNCHANGED <<twin_pc, twin_state, keepUndeclared, mode, state, param, executed, decision_text,
                   handed_plan, raised, ret, chunks>>

\* one iteration of "async for chunk in self.llm.astream(prompt)"
stream_chunk ==
    /\ pc = "streaming"
    /\ Len(chunks) < MaxChunks
    /\ \E content \in ChunkContents :
        /\ chunks' = Append(chunks, content)
        /\ yielded' = IF content # "" THEN Append(yielded, content) ELSE yielded
    /\ UNCHANGED <<twin_pc, twin_state, keepUndeclared, mode, pc, state, param, executed, decision_text,
                   handed_plan, log, raised, ret>>

\* the generation stream is exhausted
stream_end ==
    /\ pc = "streaming"
    /\ pc' = "returned"
    /\ UNCHANGED <<twin_pc, twin_state, keepUndeclared, mode, state, param, executed, decision_text,
                   handed_plan, log, raised, ret, chunks, yielded>>

\* the generation stream raises: the except block of run_stream
stream_error ==
    /\ pc = "streaming"
    /\ yielded' = Append(yielded, "Error: " \o "stream interrupted")
    /\ pc' = "returned"
    /\ UNCHANGED <<twin_pc, twin_state, keepUndeclared, mode, state, param, executed, decision_text,
                   handed_plan, log, raised, ret, chunks>>

Next ==
    \/ run_sync
    \/ run_stream
    \/ agent_run_stream
    \/ memory_decision
    \/ use_memory
    \/ analyze_user_question
    \/ search_info
    \/ execute_tools
    \/ generate_response
    \/ reasoning_step
    \/ agent_execute_tools
    \/ run_sync_return
    \/ open_stream
    \/ agent_open_stream
    \/ stream_chunk
    \/ stream_end
    \/ stream_error

Spec == Init /\ [][Next]_vars

-----------------------------------------------------------------------------
(* use_tools and execute_tool_calls on their own: the state passed in is drawn *)
(* from the combinations of present, empty and missing llm, plan and list_tools *)

ToolStates ==
    { [k \in keys |-> CASE k = "llm" -> "llm"
                        [] k = "user_question" -> "What is TBI?"
                        [] k = "plan" -> plan
                        [] k = "list_tools" -> tools]
        : keys \in { {"user_question"} \cup opt : opt \in SUBSET {"llm", "plan", "list_tools"} },
          plan \in {"", "search the knowledge base"},
          tools \in {<<>>, ChatTools, AgentTools} }

ToolInit ==
    /\ keepUndeclared = TRUE
    /\ mode = "use_tools"
    /\ pc = "call"
    /\ state \in ToolStates
    /\ param \in { [response |-> response, outcome |-> outcome]
                     : response \in ResponseOutcomes, outcome \in UNION {OutcomeMaps(r) : r \in ResponseOutcomes} }
    /\ param.outcome \in OutcomeMaps(param.response)
    /\ executed = <<>>
    /\ decision_text = <<>>
    /\ handed_plan = <<>>
    /\ log = <<>>
    /\ raised = ""
    /\ ret = <<>>
    /\ chunks = <<>>
    /\ yielded = <<>>
    /\ twin_pc = "idle"
    /\ twin_state = <<>>

\* one call of use_tools(state)
call_use_tools ==
    /\ mode = "use_tools"
    /\ pc = "call"
    /\ LET r == use_tools(state, param.response, param.outcome)
       IN  /\ raised' = r.exc
           /\ log' = r.log
           /\ ret' = IF r.exc = "" THEN <<r.results>> ELSE <<>>
    /\ pc' = "returned"
    /\ UNCHANGED <<twin_pc, twin_state, keepUndeclared, mode, state, param, executed,
                   decision_text, handed_plan, chunks, yielded>>

ToolNext == call_use_tools

ToolSpec == ToolInit /\ [][ToolNext]_vars

-----------------------------------------------------------------------------
(* A synchronous and a streaming chat run on the same request, every external *)
(* call behaving the same way in both                                         *)

PairInit ==
    /\ keepUndeclared \in BOOLEAN
    /\ mode = "pair"
    /\ pc = "memory_decision"
    /\ twin_pc = "memory_decision"
    /\ param \in Requests
    /\ state = Handover(ChatInitialState(param), WorkflowChatState)
    /\ twin_state = Handover(ChatInitialState(param), WorkflowChatState)
    /\ executed = <<>>
    /\ decision_text = <<>>
    /\ handed_plan = <<>>
    /\ log = <<>>
    /\ raised = ""
    /\ ret = <<>>
    /\ chunks = <<>>
    /\ yielded = <<>>

\* both graphs run node where they stand at it: r and twin_r are what the node
\* function gave back on the state of the synchronous and of the streaming graph
PairAdvance(node, r, twin_r) ==
    /\ mode = "pair"
    /\ pc = node \/ twin_pc = node
    /\ IF pc = node
       THEN /\ state' = Handover(r.st, WorkflowChatState)
            /\ pc' = _create_graph(node, Handover(r.st, WorkflowChatState))
       ELSE UNCHANGED <<state, pc>>
    /\ IF twin_pc = node
       THEN /\ twin_state' = Handover(twin_r.st, WorkflowChatState)
            /\ twin_pc' = _create_graph_without_generation(
                              node, Handover(twin_r.st, WorkflowChatState))
       ELSE UNCHANGED <<twin_state, twin_pc>>
    /\ executed' = Append(executed, node)
    /\ UNCHANGED <<keepUndeclared, mode, param, decision_text, handed_plan, log, raised,
                   ret, chunks, yielded>>

pair_memory_decision ==
    \E load \in LoadOutcomes, dec \in DecisionOutcomes :
        PairAdvance("memory_decision", _memory_decision_node(state, load, dec),
                    _memory_decision_node(twin_state, load, dec))

pair_use_memory ==
    PairAdvance("use_memory", _use_memory_node(state), _use_memory_node(twin_state))

pair_analyze_user_question ==
    \E planning \in PlanningOutcomes :
        PairAdvance("analyze_user_question", _analyze_user_question_node(state, planning),
                    _analyze_user_question_node(twin_state, planning))

pair_search_info ==
    \E search \in SearchOutcomes :
        PairAdvance("search_info", _search_info_node(state, search),
                    _search_info_node(twin_state, search))

pair_execute_tools ==
    \E response \in ResponseOutcomes : \E outcome \in OutcomeMaps(response) :
        PairAdvance("execute_tools", _execute_tools_node(state, response, outcome),
                    _execute_tools_node(twin_state, response, outcome))

PairNext ==
    \/ pair_memory_decision
    \/ pair_use_memory
    \/ pair_analyze_user_question
    \/ pair_search_info
    \/ pair_execute_tools

PairSpec == PairInit /\ [][PairNext]_vars



-----------------------------------------------------------------------------
(* Properties *)

ChatRun == mode \in {"sync", "stream"}

Range(seq) == {seq[i] : i \in 1..Len(seq)}

IsPrefix(a, b) == Len(a) <= Len(b) /\ SubSeq(b, 1, Len(a)) = a

TrueTexts == {"true", "TRUE", " True\n"}

\* C2: memory_decision sets use_memory to true exactly when the oracle's text,
\* trimmed and compared case-insensitively, is the token "true"; "yes", "1",
\* "true." and malformed output give false.
C2_TrueTokenOnly ==
    (ChatRun /\ Len(decision_text) = 1 /\ Has(state, "use_memory")) =>
        (state["use_memory"] <=> decision_text[1] \in TrueTexts)

C2_Witness ==
    /\ ChatRun
    /\ decision_text = <<" True\n">>
    /\ Has(state, "use_memory")
    /\ state["use_memory"]
    /\ "use_memory" \in Range(executed)

\* the node order of the synchronous chat graph, with and without use_memory
ChatOrder(with_memory) ==
    <<"memory_decision">> \o (IF with_memory THEN <<"use_memory">> ELSE <<>>)
    \o <<"analyze_user_question", "search_info", "execute_tools", "generate_response">>

\* C3: a synchronous chat run executes memory_decision, [use_memory],
\* analyze_user_question, search_info, execute_tools, generate_response, END in
\* this order, each node at most once, and use_memory exactly when
\* memory_decision set use_memory to true.
C3_SyncNodeOrder ==
    (mode = "sync" /\ Len(executed) >= 1) =>
        LET order == ChatOrder(state["use_memory"])
        IN  /\ IsPrefix(executed, order)
            /\ pc \in {"END", "returned"} => executed = order
            /\ pc \notin {"END", "returned"} =>
                   /\ Len(executed) < Len(order)
                   /\ pc = order[Len(executed) + 1]

C3_Witness ==
    /\ mode = "sync"
    /\ pc = "END"
    /\ executed = ChatOrder(TRUE)

\* the steps a synchronous chat run takes at most: its six nodes
MaxSyncNodes == Len(ChatOrder(TRUE))

\* C4: whatever external calls fail, a synchronous chat run terminates: no node
\* raises, from every state before the return a next step can be taken, every step
\* executes one more of the at most six nodes or returns, and the run ends having
\* executed generate_response, with is_complete true.
C4_SyncRunCompletes ==
    /\ [](mode = "sync" =>
            /\ raised = "" /\ pc # "failed"
            /\ pc # "returned" => ENABLED Next
            /\ Len(executed) <= MaxSyncNodes
            /\ pc \in {"END", "returned"} =>
                   /\ executed[Len(executed)] = "generate_response"
                   /\ state["is_complete"] = TRUE
            /\ pc = "returned" => Len(ret) = 1)
    /\ [][mode = "sync" =>
            \/ Len(executed') = Len(executed) + 1
            \/ pc = "END" /\ pc' = "returned"]_vars

\* a finished synchronous run in which the decision oracle, the planning call,
\* the tool-binding call and the generation call all failed
C4_Witness ==
    /\ mode = "sync"
    /\ pc = "returned"
    /\ decision_text = <<>>
    /\ ~Has(state, "plan") \/ ~keepUndeclared
    /\ state["tool_results"] = PyStr("Tool execution error: tool LLM failed")
    /\ state["final_response"] = "Error generating response: generation failed"
    /\ state["is_complete"] = TRUE

\* C5: run_sync returns a non-empty text and run_stream / AgentGraph.run_stream
\* yield at least one non-empty fragment, for every input and every failure of
\* an external call.
C5_CallerAlwaysReceivesText ==
    (pc = "returned" /\ mode \in {"sync", "stream", "agent"}) =>
        /\ mode = "sync" => Len(ret) = 1 /\ ret[1] # ""
        /\ mode \in {"stream", "agent"} => \E i \in 1..Len(yielded) : yielded[i] # ""

DictHas(items, name) == \E i \in 1..Len(items) : items[i][1] = name

DictGet(items, name) == items[CHOOSE i \in 1..Len(items) : items[i][1] = name][2]

\* a finished call of use_tools that got as far as dispatching the response's tool calls
Dispatched ==
    /\ mode = "use_tools"
    /\ pc = "returned"
    /\ Has(state, "llm")
    /\ Has(state, "plan") /\ state["plan"] # ""
    /\ Has(state, "list_tools") /\ Len(state["list_tools"]) > 0
    /\ param.response.t = "ok"

RequestedCalls == param.response.v

Registered(name) == name \in Range(state["list_tools"])

\* the i-th requested call fails: no such tool, or the tool raises when invoked
CallFails(i) ==
    \/ ~Registered(RequestedCalls[i])
    \/ RequestedCalls[i] \notin DecoratedTools
    \/ param.outcome[i].t = "raise"

IsErrorString(v) == StartsWith(v, ErrMark) \/ StartsWith(v, WarnMark)

RECURSIVE Attempts(_)
\* the invocations that the requested calls amount to, in request order
Attempts(calls) ==
    IF Len(calls) = 0 THEN <<>>
    ELSE (IF Registered(calls[1]) THEN <<"invoke:" \o calls[1]>> ELSE <<>>)
         \o Attempts(Tail(calls))

\* the i-th requested call left its outcome under its tool name
OutcomeRecorded(i) ==
    /\ DictHas(ret[1], RequestedCalls[i])
    /\ IF CallFails(i)
       THEN IsErrorString(DictGet(ret[1], RequestedCalls[i]))
       ELSE DictGet(ret[1], RequestedCalls[i]) = param.outcome[i].v

\* C6 as stated: execute_tool_calls never raises because of a requested call, the
\* calls are attempted in request order, a failing call leaves an error string
\* under its tool name, and every other requested call is executed and its result
\* is recorded unchanged.
C6_EveryCallRecorded ==
    Dispatched =>
        /\ raised = "" /\ Len(ret) = 1
        /\ log = <<"bind_tools", "llm.invoke:use_tools">> \o Attempts(RequestedCalls)
        /\ \A i \in 1..Len(RequestedCalls) : OutcomeRecorded(i)

\* C6 amended: as C6, but the mapping keeps one entry per tool name, so the
\* outcome of a call is found in it unless a later requested call has the same
\* tool name.
C6_LastCallPerNameRecorded ==
    Dispatched =>
        /\ raised = "" /\ Len(ret) = 1
        /\ log = <<"bind_tools", "llm.invoke:use_tools">> \o Attempts(RequestedCalls)
        /\ \A i \in 1..Len(RequestedCalls) :
               (\A j \in (i + 1)..Len(RequestedCalls) : RequestedCalls[j] # RequestedCalls[i])
                   => OutcomeRecorded(i)

\* a tool that raised, followed by a sibling call whose result was recorded
C6_Witness ==
    /\ Dispatched
    /\ RequestedCalls = <<"search_knowledge_base", "get_mapping_keyword">>
    /\ param.outcome[1].t = "raise"
    /\ param.outcome[2].t = "ok"
    /\ ret = << <<(<<"search_knowledge_base", "[x] Error executing search_knowledge_base: boom">>),
                  (<<"get_mapping_keyword", "result 2">>)>> >>

\* C7: use_tools fails with an error, before binding tools, calling the LLM or
\* invoking any tool, whenever the plan is missing or empty or the tool list is
\* missing or empty.
C7_UseToolsRejectsMissingInput ==
    (/\ mode = "use_tools"
     /\ pc = "returned"
     /\ \/ ~Has(state, "plan")
        \/ state["plan"] = ""
        \/ ~Has(state, "list_tools")
        \/ Len(state["list_tools"]) = 0)
    => /\ raised # ""
       /\ log = <<>>
       /\ ret = <<>>

C7_Witness ==
    /\ mode = "use_tools"
    /\ pc = "returned"
    /\ Has(state, "llm")
    /\ Has(state, "plan") /\ state["plan"] = ""
    /\ Has(state, "list_tools") /\ state["list_tools"] = ChatTools
    /\ param.response.t = "ok" /\ Len(param.response.v) > 0
    /\ raised = "Plan not found in state"

\* the plan an execute_tools node handed to use_tools violated use_tools' precondition
PlanViolated ==
    /\ Len(handed_plan) >= 1
    /\ IF handed_plan[1].t = "none" THEN TRUE ELSE handed_plan[1].v = ""

\* C8: when the missing-plan / missing-tools precondition of execute_tools is
\* violated during a chat or agent run, the run fails: it does not continue to
\* response generation with a substituted tool result.
C8_PreconditionViolationFailsLoudly ==
    (mode \in {"sync", "stream", "agent"} /\ PlanViolated) =>
        \/ pc = "failed"
        \/ pc = "returned" /\ raised # ""

C10_SameStateBeforeGeneration ==
    mode = "pair" =>
        /\ twin_pc = "END" <=> pc = "generate_response"
        /\ (twin_pc = "END" /\ pc = "generate_response") => twin_state = state

C10_Witness ==
    /\ mode = "pair"
    /\ twin_pc = "END"
    /\ pc = "generate_response"
    /\ executed = <<"memory_decision", "use_memory", "analyze_user_question",
                    "search_info", "execute_tools">>
    /\ state["tool_results"].t = "dict"
    /\ Len(state["tool_calls"]) = MaxCalls

-----------------------------------------------------------------------------
StreamingRun == mode \in {"stream", "agent"}

CountOf(seq, x) == Cardinality({i \in 1..Len(seq) : seq[i] = x})

GraphFinished == pc \in {"END", "failed", "streaming", "returned"}

\* the graph ran to its end and handed run_stream a final state
GraphGaveFinalState == pc \in {"streaming", "returned"} /\ raised = "" /\ DOMAIN state # {}

\* C11: in a streaming run (chat or agent) the generation stream is opened only
\* after every graph node has completed, it is opened at most once, and it is
\* opened exactly once when the graph produced a final state.
C11_OneGenerationCallAfterGraph ==
    StreamingRun =>
        /\ CountOf(log, "llm.astream") <= 1
        /\ CountOf(log, "llm.invoke:generate_response") = 0
        /\ CountOf(log, "llm.astream") = 1 => GraphFinished /\ pc # "END"
        /\ GraphGaveFinalState => CountOf(log, "llm.astream") = 1

AgentOrder == <<"reasoning_step", "execute_tools">>

\* C12: every run of the agent graph executes reasoning_step once, then
\* execute_tools once, then ends, also when the reasoning call or the memory
\* load fails; no graph node performs response generation.
C12_AgentNodeOrder ==
    mode = "agent" =>
        /\ IsPrefix(executed, AgentOrder)
        /\ pc # "failed"
        /\ pc = "reasoning_step" <=> executed = <<>>
        /\ pc = "execute_tools" <=> executed = <<"reasoning_step">>
        /\ GraphFinished <=> executed = AgentOrder
        /\ CountOf(log, "llm.invoke:generate_response") = 0

\* an agent run whose reasoning call failed has run both nodes and ended
C12_Witness ==
    /\ mode = "agent"
    /\ pc = "END"
    /\ executed = AgentOrder
    /\ Has(state, "reasoning")
    /\ state["reasoning"][1].reasoning = "reasoning failed"

\* C13: in every state of a chat run (sync or streaming) is_complete is true
\* exactly when final_response is set, i.e. present in the state.
C13_CompleteIffFinalResponse ==
    (ChatRun /\ DOMAIN state # {}) =>
        (Get(state, "is_complete", FALSE) = TRUE <=> Has(state, "final_response"))

\* a sync run whose generation call failed: both fields were set by the handler
C13_Witness ==
    /\ mode = "sync"
    /\ pc = "END"
    /\ state["is_complete"] = TRUE
    /\ state["final_response"] = "Error generating response: generation failed"

\* the node names registered by add_node in the graph variant being executed
GraphNodes ==
    IF mode = "sync"
    THEN {"memory_decision", "analyze_user_question", "use_memory", "search_info",
          "execute_tools", "generate_response"}
    ELSE IF mode = "stream"
    THEN {"memory_decision", "analyze_user_question", "use_memory", "search_info",
          "execute_tools"}
    ELSE {"reasoning_step", "execute_tools"}

\* C14: in every state of a chat or agent run current_step names a node of the
\* graph variant being executed, also after a node's error path.
C14_CurrentStepNamesNode ==
    (mode # "idle" /\ DOMAIN state # {}) => state["current_step"] \in GraphNodes

ToolCallsIn(s) == IF Has(s, "tool_calls") THEN s["tool_calls"] ELSE <<>>

\* C15: tool_calls is append-only during a chat run: a ToolCall record that is
\* in tool_calls (supplied by the caller or recorded by search_info or
\* execute_tools) is still there, unmodified, in every later state of the run.
C15_ToolCallsAppendOnly ==
    [][(ChatRun /\ DOMAIN state # {}) =>
           Range(ToolCallsIn(state)) \subseteq Range(ToolCallsIn(state'))]_vars

-----------------------------------------------------------------------------
(* Document ingestion pipeline (f/rag/chunking.flow/inline_script_0.inline_script.py) *)

\* most chunks the splitter gives for one document
MaxChunksPerDoc == 2

\* largest max_download_retries configured; 3 is the value the pipeline sets
\* when the configuration gives none
MaxRetries == 3

\* batch_size_insert or 8
DefaultBatchSize == 8

\* an exception of the given class
Thrown(type, e) == [t |-> "raise", type |-> type, e |-> e]

\* str.endswith
EndsWith(s, p) == Len(s) >= Len(p) /\ SubSeq(s, Len(s) - Len(p) + 1, Len(s)) = p

\* one outbound request or pause: op names it, doc is the document or chunk text
\* it concerns, n is an attempt number, a duration in half seconds or a batch
\* number, ids are the chunk ids of an upload batch
Event(op, doc, n, ids) == [op |-> op, doc |-> doc, n |-> n, ids |-> ids]

\* DocumentPipeline._validate_inputs: the set of cleaned ids, or ValueError
_validate_inputs(upload_documents, session_id) ==
    IF session_id = "" \/ Strip(session_id) = ""
    THEN Thrown("ValueError", "Session ID is required")
    ELSE IF Len(upload_documents) = 0
    THEN Thrown("ValueError", "No documents provided")
    ELSE LET clean_docs == {Strip(upload_documents[i]) : i \in
                               {j \in 1..Len(upload_documents) :
                                    upload_documents[j] # "" /\ Strip(upload_documents[j]) # ""}}
         IN  IF clean_docs = {}
             THEN Thrown("ValueError", "No valid document IDs found")
             ELSE Ok(clean_docs)

\* DocumentAPI.get_document_metadata; meta is what the metadata endpoint does
get_document_metadata(document_id, meta) ==
    IF meta.t = "raise"
    THEN Thrown("ProcessingError",
                "Failed to get metadata for " \o document_id \o ": " \o meta.e)
    ELSE Ok(meta.v)

RECURSIVE DownloadLoop_flat(_, _, _, _, _, _)
\* variant: the pause after a failed content request does not grow
DownloadLoop_flat(document_id, metadata, attempt, max_retries, attempts, log_) ==
    IF attempt >= max_retries
    THEN [t |-> "ok", v |-> PyNone, log |-> log_]
    ELSE LET requested == Append(log_, Event("GET content", document_id, attempt + 1, <<>>))
         IN  CASE attempts[attempt + 1] = "ok" ->
                      [t |-> "ok",
                       v |-> [file_path |-> document_id \o "_" \o metadata.filename,
                              metadata |-> metadata],
                       log |-> requested]
               [] attempts[attempt + 1] = "empty" ->
                      [t |-> "raise", type |-> "ProcessingError",
                       e |-> "Empty file downloaded for " \o document_id,
                       log |-> requested]
               [] OTHER ->
                      IF attempt = max_retries - 1
                      THEN [t |-> "raise", type |-> "ProcessingError",
                            e |-> "Download failed for " \o document_id \o ": connection error",
                            log |-> requested]
                      ELSE DownloadLoop_flat(document_id, metadata, attempt + 1, max_retries,
                                             attempts,
                                             Append(requested,
                                                    Event("sleep", document_id, 1, <<>>)))

RECURSIVE DownloadLoop(_, _, _, _, _, _)
\* "for attempt in range(self.max_retries)" of download_document, from the given
\* attempt on; attempts[k] is what the k-th content request does
DownloadLoop(document_id, metadata, attempt, max_retries, attempts, log_) ==
    IF attempt >= max_retries
    THEN [t |-> "ok", v |-> PyNone, log |-> log_]
    ELSE LET requested == Append(log_, Event("GET content", document_id, attempt + 1, <<>>))
         IN  CASE attempts[attempt + 1] = "ok" ->
                      [t |-> "ok",
                       v |-> [file_path |-> document_id \o "_" \o metadata.filename,
                              metadata |-> metadata],
                       log |-> requested]
               [] attempts[attempt + 1] = "empty" ->
                      [t |-> "raise", type |-> "ProcessingError",
                       e |-> "Empty file downloaded for " \o document_id,
                       log |-> requested]
               [] OTHER ->
                      IF attempt = max_retries - 1
                      THEN [t |-> "raise", type |-> "ProcessingError",
                            e |-> "Download failed for " \o document_id \o ": connection error",
                            log |-> requested]
                      ELSE DownloadLoop(document_id, metadata, attempt + 1, max_retries, attempts,
                                        Append(requested,
                                               Event("sleep", document_id, attempt + 1, <<>>)))

\* metadata.get(key, default) on the metadata record
MetaGet(metadata, key, default) == IF key \in DOMAIN metadata THEN metadata[key] ELSE default

\* DocumentAPI.download_document
download_document(document_id, max_retries, meta, attempts) ==
    LET m == get_document_metadata(document_id, meta)
        asked == <<Event("GET metadata", document_id, 0, <<>>)>>
    IN  IF m.t = "raise"
        THEN [t |-> "raise", type |-> m.type, e |-> m.e, log |-> asked]
        ELSE LET filename == MetaGet(m.v, "filename", "document_" \o document_id)
                 content_type == MetaGet(m.v, "content_type", "")
             IN  IF content_type = "" \/ ~EndsWith(filename, "." \o content_type)
                 THEN [t |-> "raise", type |-> "ProcessingError",
                       e |-> "Invalid content type for document " \o document_id,
                       log |-> asked]
                 ELSE DownloadLoop(document_id,
                                   [filename |-> filename, content_type |-> content_type,
                                    file_size |-> MetaGet(m.v, "file_size", 0)],
                                   0, max_retries, attempts, asked)

\* the files download_document opened for writing in the temporary directory:
\* temp_file_path, once a content request got a response
FilesWritten(document_id, max_retries, meta, attempts) ==
    LET m == get_document_metadata(document_id, meta)
    IN  IF m.t = "raise" THEN {}
        ELSE LET filename == MetaGet(m.v, "filename", "document_" \o document_id)
                 content_type == MetaGet(m.v, "content_type", "")
             IN  IF content_type = "" \/ ~EndsWith(filename, "." \o content_type)
                 THEN {}
                 ELSE IF \E j \in 1..max_retries : attempts[j] # "request_error"
                 THEN {document_id \o "_" \o filename}
                 ELSE {}

\* DocumentLoaderFactory._loaders
_loaders == {"pdf", "docx", "txt"}

\* the text of chunk i (split index, from 0) of a document
ChunkText(document_id, i) == "text " \o ToString(i) \o " of " \o document_id

\* the first n characters of a string: s[:n]
Prefix(s, n) == IF Len(s) <= n THEN s ELSE SubSeq(s, 1, n)

\* the string hashed by uuid5 into chunk_id
ChunkIdOf(document_id, i, page_content) ==
    document_id \o "_" \o ToString(i) \o "_" \o Prefix(page_content, 50)

\* DocumentAPI.get_text_embedding with max_chunking_retries of at least 1, where it
\* gives a vector or raises; emb is what its requests come to (EmbedAttempts
\* has the requests one by one)
get_text_embedding(text, emb) ==
    IF emb.t = "raise" THEN Thrown("ProcessingError", "Embedding failed: " \o emb.e)
    ELSE Ok(emb.v)

RECURSIVE EmbedLoop_renumber(_, _, _, _, _, _, _)
\* variant: chunk_index counts the recorded chunks instead of the split chunks
EmbedLoop_renumber(document_id, session_id, metadata, n, i, embed, acc) ==
    IF i >= n THEN acc
    ELSE LET page_content == ChunkText(document_id, i)
             r == get_text_embedding(page_content, embed[i])
             asked == Append(acc.log, Event("POST context", page_content, i, <<>>))
         IN  IF r.t = "raise"
             THEN EmbedLoop_renumber(document_id, session_id, metadata, n, i + 1, embed,
                                     [chunk_metadata |-> acc.chunk_metadata, log |-> asked])
             ELSE EmbedLoop_renumber(document_id, session_id, metadata, n, i + 1, embed,
                            [chunk_metadata |->
                                 Append(acc.chunk_metadata,
                                        [chunk_id |-> ChunkIdOf(document_id, i, page_content),
                                         document_id |-> document_id,
                                         document_title |-> metadata.filename,
                                         chunk_text |-> page_content,
                                         vector |-> r.v,
                                         chunk_index |-> Len(acc.chunk_metadata),
                                         session_id |-> session_id]),
                             log |-> asked])

RECURSIVE EmbedLoop_id_by_position(_, _, _, _, _, _, _)
\* variant: chunk_id is computed from the position among the recorded chunks
EmbedLoop_id_by_position(document_id, session_id, metadata, n, i, embed, acc) ==
    IF i >= n THEN acc
    ELSE LET page_content == ChunkText(document_id, i)
             r == get_text_embedding(page_content, embed[i])
             asked == Append(acc.log, Event("POST context", page_content, i, <<>>))
         IN  IF r.t = "raise"
             THEN EmbedLoop_id_by_position(document_id, session_id, metadata, n, i + 1, embed,
                                           [chunk_metadata |-> acc.chunk_metadata, log |-> asked])
             ELSE EmbedLoop_id_by_position(document_id, session_id, metadata, n, i + 1, embed,
                            [chunk_metadata |->
                                 Append(acc.chunk_metadata,
                                        [chunk_id |-> ChunkIdOf(document_id,
                                                                Len(acc.chunk_metadata),
                                                                page_content),
                                         document_id |-> document_id,
                                         document_title |-> metadata.filename,
                                         chunk_text |-> page_content,
                                         vector |-> r.v,
                                         chunk_index |-> i,
                                         session_id |-> session_id]),
                             log |-> asked])

RECURSIVE EmbedLoop(_, _, _, _, _, _, _)
\* "for i, chunk in enumerate(...)" of _process_single_document, from split index i on
EmbedLoop(document_id, session_id, metadata, n, i, embed, acc) ==
    IF i >= n THEN acc
    ELSE LET page_content == ChunkText(document_id, i)
             r == get_text_embedding(page_content, embed[i])
             asked == Append(acc.log, Event("POST context", page_content, i, <<>>))
         IN  IF r.t = "raise"
             THEN EmbedLoop(document_id, session_id, metadata, n, i + 1, embed,
                            [chunk_metadata |-> acc.chunk_metadata, log |-> asked])
             ELSE EmbedLoop(document_id, session_id, metadata, n, i + 1, embed,
                            [chunk_metadata |->
                                 Append(acc.chunk_metadata,
                                        [chunk_id |-> ChunkIdOf(document_id, i, page_content),
                                         document_id |-> document_id,
                                         document_title |-> metadata.filename,
                                         chunk_text |-> page_content,
                                         vector |-> r.v,
                                         chunk_index |-> i,
                                         session_id |-> session_id]),
                             log |-> asked])

\* DocumentPipeline._process_single_document; doc says what every external call
\* made for this document does
_process_single_document(document_id, session_id, max_retries, doc) ==
    LET d == download_document(document_id, max_retries, doc.meta, doc.attempts)
    IN  IF d.t = "raise" THEN d
        ELSE IF d.v = PyNone
        THEN [t |-> "raise", type |-> "TypeError",
              e |-> "cannot unpack non-iterable NoneType object", log |-> d.log]
        ELSE LET metadata == d.v.metadata
             IN  IF Lower(metadata.content_type) \notin _loaders
                 THEN [t |-> "raise", type |-> "ValueError",
                       e |-> "Unsupported file type: " \o metadata.content_type, log |-> d.log]
                 ELSE IF doc.load = "raise"
                 THEN [t |-> "raise", type |-> "Exception",
                       e |-> "cannot read file", log |-> d.log]
                 ELSE IF doc.load = "nothing"
                 THEN [t |-> "raise", type |-> "ProcessingError",
                       e |-> "No documents loaded from " \o metadata.filename, log |-> d.log]
                 ELSE IF doc.nchunks = 0
                 THEN [t |-> "raise", type |-> "ProcessingError",
                       e |-> "No chunks generated for " \o metadata.filename, log |-> d.log]
                 ELSE LET r == EmbedLoop(document_id, session_id, metadata, doc.nchunks, 0,
                                         doc.embed, [chunk_metadata |-> <<>>, log |-> d.log])
                      IN  [t |-> "ok", v |-> [chunks |-> r.chunk_metadata, metadata |-> metadata],
                           log |-> r.log]

-----------------------------------------------------------------------------
(* Inputs of the pipeline and what its external calls do *)

GoodMeta == [filename |-> "a.pdf", content_type |-> "pdf", file_size |-> 10]

\* answers of the metadata endpoint that make download_document fail, the last
\* one a document type without a loader
BadMetas == {Ok([filename |-> "a.pdf", content_type |-> "docx", file_size |-> 10]),
             Ok([filename |-> "a.pdf", file_size |-> 10]),
             Ok(<<>>),
             Raise("503 Server Error"),
             Ok([filename |-> "a.csv", content_type |-> "csv", file_size |-> 10])}

\* what the content requests of one document do: k request failures, then x
AttemptSeqs(max_retries) ==
    { [j \in 1..max_retries |-> IF j <= k THEN "request_error" ELSE x]
        : k \in 0..max_retries, x \in {"ok", "empty"} }

\* the embedding endpoint's answer for a text
Embedding(text) == Ok([emb_of |-> text])

\* what the external calls made for one document do
DocOutcomes(document_id, max_retries) ==
    LET AllOk(n) == [i \in 0..(n - 1) |-> Embedding(ChunkText(document_id, i))]
        FirstTry == [j \in 1..max_retries |-> "ok"]
        base == [meta |-> Ok(GoodMeta), attempts |-> FirstTry, load |-> "ok",
                 nchunks |-> 1, embed |-> AllOk(1)]
    IN  {[base EXCEPT !.meta = m] : m \in BadMetas}
        \cup {[base EXCEPT !.attempts = a] : a \in AttemptSeqs(max_retries)}
        \cup {[base EXCEPT !.load = l] : l \in {"raise", "nothing"}}
        \cup {[base EXCEPT !.nchunks = 0, !.embed = AllOk(0)]}
        \cup {[base EXCEPT !.nchunks = n,
                           !.embed = [i \in 0..(n - 1) |->
                                          IF i \in failing THEN Raise("connection error")
                                          ELSE Embedding(ChunkText(document_id, i))]]
                : n \in 1..MaxChunksPerDoc, failing \in SUBSET (0..(MaxChunksPerDoc - 1))}

\* the outcomes drawn for a document of a run with more than two documents: a
\* document that succeeds with every chunk, one that fails in download, one that
\* fails in loading, and one whose embeddings all fail
FewDocOutcomes(document_id, max_retries) ==
    {doc \in DocOutcomes(document_id, max_retries) :
        /\ doc.meta = Ok(GoodMeta)
        /\ doc.load # "nothing"
        /\ doc.nchunks >= 1
        /\ \A j \in 1..max_retries : doc.attempts[j] # "empty"
        /\ \/ \A i \in 0..(doc.nchunks - 1) : doc.embed[i].t = "ok"
           \/ doc.nchunks = 1 /\ doc.embed[0].t = "raise"}

\* what one upload POST does: accepted, a requests.RequestException, or an
\* exception of another class (a body that is not a JSON object)
UploadOutcomes == {"ok", "request_error", "other_error"}

\* arguments of process_documents and the configuration of the pipeline;
\* batch_size_insert 0 stands for None
Job(upload_documents, session_id, batch_size_insert, retries) ==
    [upload_documents |-> upload_documents, session_id |-> session_id,
     batch_size_insert |-> batch_size_insert, max_download_retries |-> retries]

Jobs ==
    { Job(<<"d1", "d2", "d3">>, "s1", 0, 1),
      Job(<<" d1 ", "d1", "", "d2">>, "s1", 1, MaxRetries),
      Job(<<"d1">>, "s1", 2, 2),
      Job(<<"d1">>, "s1", 2, 0),
      Job(<<"d1">>, "", 0, 1),
      Job(<<"d1">>, "  ", 0, 1),
      Job(<<>>, "s1", 0, 1),
      Job(<<" ", "">>, "s1", 0, 1) }

\* the orders in which list(set(...)) can give the cleaned ids
Orders(S) == {p \in [1..Cardinality(S) -> S] : {p[i] : i \in 1..Cardinality(S)} = S}

-----------------------------------------------------------------------------
(* process_documents, one step at a time *)

IngestInit ==
    /\ keepUndeclared = TRUE
    /\ mode = "ingest"
    /\ pc = "start"
    /\ state = <<>>
    /\ param \in Jobs
    /\ executed = <<>>
    /\ decision_text = <<>>
    /\ handed_plan = <<>>
    /\ log = <<>>
    /\ raised = ""
    /\ ret = <<>>
    /\ chunks = <<>>
    /\ yielded = <<>>
    /\ twin_pc = "idle"
    /\ twin_state = <<>>

\* the dictionary returned by the except block of process_documents
FailureResult(e) == [success |-> FALSE, error |-> e]

\* batch_size = batch_size_insert or 8
BatchSize(job) == IF job.batch_size_insert = 0 THEN DefaultBatchSize ELSE job.batch_size_insert

\* process_documents up to the document loop: validation, then the temporary
\* directory and the HTTP session are opened
validate ==
    /\ mode = "ingest"
    /\ pc = "start"
    /\ LET r == _validate_inputs(param.upload_documents, param.session_id)
       IN  IF r.t = "raise"
           THEN /\ ret' = <<FailureResult(r.e)>>
                /\ pc' = "returned"
                /\ state' = state
           ELSE /\ \E clean_documents \in Orders(r.v) :
                       state' = [clean_documents |-> clean_documents,
                                 doc_idx |-> 0,
                                 done |-> <<>>,
                                 all_chunks |-> <<>>,
                                 processed_count |-> 0,
                                 total_size |-> 0,
                                 errors |-> <<>>,
                                 temp_dir |-> "created",
                                 files |-> {},
                                 session |-> "open",
                                 i |-> 0,
                                 successful_batches |-> 0,
                                 failed_batches |-> 0,
                                 total_uploaded |-> 0,
                                 upload_errors |-> <<>>,
                                 outcomes |-> <<>>,
                                 upload_result |-> <<>>]
                /\ pc' = "documents"
                /\ ret' = ret
    /\ UNCHANGED <<twin_pc, twin_state, keepUndeclared, mode, param, executed, decision_text,
                   handed_plan, log, raised, chunks, yielded>>

\* variant: a failing document leaves no entry in errors
LoopBody_silent(s, document_id, r) ==
    IF r.t = "raise" THEN s
    ELSE IF Len(r.v.chunks) > 0
    THEN [s EXCEPT !.all_chunks = @ \o r.v.chunks,
                   !.processed_count = @ + 1,
                   !.total_size = @ + r.v.metadata.file_size]
    ELSE [s EXCEPT !.errors = Append(@, "No chunks generated for " \o document_id)]

\* variant: a document without chunk records still counts as processed
LoopBody_counting_empty(s, document_id, r) ==
    IF r.t = "raise"
    THEN [s EXCEPT !.errors = Append(@, "Failed to process " \o document_id \o ": " \o r.e)]
    ELSE IF Len(r.v.chunks) > 0
    THEN [s EXCEPT !.all_chunks = @ \o r.v.chunks,
                   !.processed_count = @ + 1,
                   !.total_size = @ + r.v.metadata.file_size]
    ELSE [s EXCEPT !.errors = Append(@, "No chunks generated for " \o document_id),
                   !.processed_count = @ + 1,
                   !.total_size = @ + r.v.metadata.file_size]

\* the try / except inside the document loop of process_documents; r is what
\* _process_single_document did
LoopBody(s, document_id, r) ==
    IF r.t = "raise"
    THEN [s EXCEPT !.errors = Append(@, "Failed to process " \o document_id \o ": " \o r.e)]
    ELSE IF Len(r.v.chunks) > 0
    THEN [s EXCEPT !.all_chunks = @ \o r.v.chunks,
                   !.processed_count = @ + 1,
                   !.total_size = @ + r.v.metadata.file_size]
    ELSE [s EXCEPT !.errors = Append(@, "No chunks generated for " \o document_id)]

\* one iteration of "for doc_idx, document_id in enumerate(clean_documents, 1)";
\* done remembers what _process_single_document did for each document and what
\* its content requests were drawn to do
process_document ==
    /\ mode = "ingest"
    /\ pc = "documents"
    /\ state.doc_idx < Len(state.clean_documents)
    /\ LET document_id == state.clean_documents[state.doc_idx + 1]
       IN  \E doc \in IF Len(state.clean_documents) > 2
                       THEN FewDocOutcomes(document_id, param.max_download_retries)
                       ELSE DocOutcomes(document_id, param.max_download_retries) :
             LET r == _process_single_document(document_id, param.session_id,
                                               param.max_download_retries, doc)
                 s1 == LoopBody(state, document_id, r)
             IN  /\ state' = [s1 EXCEPT !.doc_idx = @ + 1,
                                         !.files = @ \cup FilesWritten(document_id,
                                                                       param.max_download_retries,
                                                                       doc.meta, doc.attempts),
                                         !.done = Append(@, [t |-> r.t,
                                                      type |-> IF r.t = "raise" THEN r.type ELSE "",
                                                      e |-> IF r.t = "raise" THEN r.e ELSE "",
                                                      chunks |-> IF r.t = "raise" THEN <<>>
                                                                 ELSE r.v.chunks,
                                                      file_size |-> IF r.t = "raise" THEN 0
                                                                    ELSE r.v.metadata.file_size,
                                                      meta |-> doc.meta,
                                                      attempts |-> doc.attempts,
                                                      nchunks |-> doc.nchunks,
                                                      embed |-> doc.embed])]
                 /\ log' = log \o r.log
                 /\ pc' = IF state.doc_idx + 1 < Len(state.clean_documents) THEN "documents"
                          ELSE IF Len(s1.all_chunks) > 0 THEN "upload" ELSE "summary"
    /\ UNCHANGED <<twin_pc, twin_state, keepUndeclared, mode, param, executed, decision_text,
                   handed_plan, raised, ret, chunks, yielded>>

\* variant: the directory is removed without removing the files in it first,
\* which fails when it is not empty
managed_temp_directory_exit_rmdir_only(s) ==
    [s EXCEPT !.temp_dir = IF s.files = {} THEN "removed" ELSE "created"]

\* the finally block of managed_temp_directory: every file listed in the
\* directory is removed, then the directory (os.remove and os.rmdir act on what
\* the run itself wrote and are taken to succeed)
managed_temp_directory_exit(s) ==
    [s EXCEPT !.files = {}, !.temp_dir = "removed"]

\* the finally block of api_session
api_session_exit(s) == [s EXCEPT !.session = "closed"]

\* leaving "with managed_temp_directory() ... with api_session(...)", normally
\* or by an exception: the inner block is left first
LeaveWithBlocks(s) == managed_temp_directory_exit(api_session_exit(s))

\* chunks[i : i + batch_size]
Slice(seq, i, n) ==
    SubSeq(seq, i + 1, IF i + n < Len(seq) THEN i + n ELSE Len(seq))

\* the dictionary returned by upload_chunks_batch
UploadResult(s) ==
    [success |-> s.failed_batches = 0,
     total_chunks |-> Len(s.all_chunks),
     uploaded_chunks |-> s.total_uploaded,
     successful_batches |-> s.successful_batches,
     failed_batches |-> s.failed_batches,
     errors |-> s.upload_errors]

\* one iteration of "for i in range(0, total_chunks, batch_size)" of
\* upload_chunks_batch; an exception that is not a RequestException leaves
\* upload_chunks_batch and both with blocks and reaches the except block of
\* process_documents; outcomes remembers what each POST did
upload_batch ==
    /\ mode = "ingest"
    /\ pc = "upload"
    /\ state.i < Len(state.all_chunks)
    /\ LET batch_size == BatchSize(param)
           batch_chunks == Slice(state.all_chunks, state.i, batch_size)
           batch_number == (state.i \div batch_size) + 1
           posted == Append(log, Event("POST chunks", param.session_id, batch_number,
                                       [k \in 1..Len(batch_chunks) |-> batch_chunks[k].chunk_id]))
       IN  \E out \in UploadOutcomes :
             /\ log' = posted
             /\ CASE out = "ok" ->
                      LET s1 == [state EXCEPT !.outcomes = Append(@, out),
                                              !.total_uploaded = @ + Len(batch_chunks),
                                              !.successful_batches = @ + 1,
                                              !.i = @ + batch_size]
                      IN  /\ state' = IF s1.i < Len(s1.all_chunks) THEN s1
                                      ELSE [s1 EXCEPT !.upload_result = UploadResult(s1)]
                          /\ pc' = IF s1.i < Len(s1.all_chunks) THEN "upload" ELSE "summary"
                          /\ ret' = ret
                  [] out = "request_error" ->
                      LET s1 == [state EXCEPT !.outcomes = Append(@, out),
                                              !.failed_batches = @ + 1,
                                              !.upload_errors =
                                                  Append(@, "Batch " \o ToString(batch_number)
                                                            \o " failed: connection error"),
                                              !.i = @ + batch_size]
                      IN  /\ state' = IF s1.i < Len(s1.all_chunks) THEN s1
                                      ELSE [s1 EXCEPT !.upload_result = UploadResult(s1)]
                          /\ pc' = IF s1.i < Len(s1.all_chunks) THEN "upload" ELSE "summary"
                          /\ ret' = ret
                  [] OTHER ->
                      /\ state' = LeaveWithBlocks([state EXCEPT !.outcomes = Append(@, out)])
                      /\ pc' = "returned"
                      /\ ret' = <<FailureResult("'list' object has no attribute 'get'")>>
    /\ UNCHANGED <<twin_pc, twin_state, keepUndeclared, mode, param, executed, decision_text,
                   handed_plan, raised, chunks, yielded>>

\* upload_result.get(key, default)
UploadGet(upload_result, key, default) ==
    IF key \in DOMAIN upload_result THEN upload_result[key] ELSE default

\* variant: success does not look at the upload
Result_ignoring_upload(s, job) ==
    [success |-> s.processed_count > 0,
     documents_processed |-> s.processed_count,
     total_chunks_created |-> Len(s.all_chunks),
     uploaded_chunks |-> UploadGet(s.upload_result, "uploaded_chunks", 0),
     total_size_bytes |-> s.total_size,
     session_id |-> job.session_id,
     tenant_name |-> "default",
     errors |-> s.errors \o UploadGet(s.upload_result, "errors", <<>>)]

\* the dictionary "result" of process_documents
Result(s, job) ==
    [success |-> s.processed_count > 0 /\ UploadGet(s.upload_result, "success", FALSE),
     documents_processed |-> s.processed_count,
     total_chunks_created |-> Len(s.all_chunks),
     uploaded_chunks |-> UploadGet(s.upload_result, "uploaded_chunks", 0),
     total_size_bytes |-> s.total_size,
     session_id |-> job.session_id,
     tenant_name |-> "default",
     errors |-> s.errors \o UploadGet(s.upload_result, "errors", <<>>)]

\* process_documents after the with blocks: the summary it returns
summary ==
    /\ mode = "ingest"
    /\ pc = "summary"
    /\ state' = LeaveWithBlocks(state)
    /\ ret' = <<Result(state, param)>>
    /\ pc' = "returned"
    /\ UNCHANGED <<twin_pc, twin_state, keepUndeclared, mode, param, executed, decision_text,
                   handed_plan, log, raised, chunks, yielded>>

IngestNext ==
    \/ validate
    \/ process_document
    \/ upload_batch
    \/ summary

IngestSpec == IngestInit /\ [][IngestNext]_vars

-----------------------------------------------------------------------------
(* Properties of the ingestion pipeline *)

\* the run is past validation: the locals of process_documents exist
Ingesting == mode = "ingest" /\ DOMAIN state # {}

\* what _process_single_document did for the k-th document of the run
DocResult(k) == state.done[k]

\* the k-th document failed: its processing raised or left no chunk record
DocFailed(k) == DocResult(k).t = "raise" \/ Len(DocResult(k).chunks) = 0

RECURSIVE ChunksUpTo(_)
\* the chunk records of the documents among the first k that did not fail, in order
ChunksUpTo(k) ==
    IF k = 0 THEN <<>>
    ELSE ChunksUpTo(k - 1) \o DocResult(k).chunks

\* the entries of a list of error strings that name the document
EntriesNaming(errs, document_id) == {j \in 1..Len(errs) : Contains(errs[j], document_id)}

\* process_documents returned the summary built after the upload
SummaryReturned == Ingesting /\ pc = "returned" /\ Len(ret) = 1 /\ "errors" \in DOMAIN ret[1]

Posts == SelectSeq(log, LAMBDA ev : ev.op = "POST chunks")

RECURSIVE Flatten(_)
Flatten(seqs) == IF Len(seqs) = 0 THEN <<>> ELSE Head(seqs) \o Flatten(Tail(seqs))

\* ceil(n / b)
CeilDiv(n, b) == (n + b - 1) \div b

\* upload_chunks_batch was called and the run has left it
UploadLeft == Ingesting /\ pc \in {"summary", "returned"} /\ Len(state.all_chunks) > 0

FailedPosts == {j \in 1..Len(state.outcomes) : state.outcomes[j] # "ok"}

\* C17: for n chunks and batch size b >= 1 upload_chunks_batch issues exactly
\* ceil(n/b) POSTs in order, every chunk is in exactly one batch, every batch but
\* the last has b chunks; a failed batch does not keep a later batch from being
\* attempted, adds exactly one entry to errors and makes success false.
C17_BatchesAllAttempted ==
    UploadLeft =>
        LET n == Len(state.all_chunks)
            b == BatchSize(param)
        IN  /\ Len(Posts) = CeilDiv(n, b)
            /\ \A j \in 1..Len(Posts) : Posts[j].n = j
            /\ Flatten([j \in 1..Len(Posts) |-> Posts[j].ids])
                   = [k \in 1..n |-> state.all_chunks[k].chunk_id]
            /\ \A j \in 1..(Len(Posts) - 1) : Len(Posts[j].ids) = b
            /\ Len(state.outcomes) = Len(Posts)
            /\ "errors" \in DOMAIN state.upload_result
            /\ Len(state.upload_result.errors) = Cardinality(FailedPosts)
            /\ state.upload_result.success = (FailedPosts = {})

\* process_documents has returned
IngestReturned == mode = "ingest" /\ pc = "returned" /\ Len(ret) = 1

\* C18: the result of process_documents has success true only if at least one
\* document was processed and no upload batch failed.
C18_SuccessNeedsDocumentAndCleanUpload ==
    (IngestReturned /\ ret[1].success) =>
        /\ SummaryReturned
        /\ ret[1].documents_processed > 0
        /\ \E k \in 1..state.doc_idx : ~DocFailed(k)
        /\ FailedPosts = {}

\* a successful run that uploaded in two or more batches
C18_Witness ==
    /\ IngestReturned
    /\ ret[1].success
    /\ Len(Posts) >= 2

\* _validate_inputs rejects the arguments of the run
ValidationFails ==
    mode = "ingest" /\ _validate_inputs(param.upload_documents, param.session_id).t = "raise"

\* every document of the run has been tried and every one failed
AllDocumentsFailed ==
    /\ Ingesting
    /\ state.doc_idx = Len(state.clean_documents)
    /\ \A k \in 1..state.doc_idx : DocFailed(k)

\* a result object with success false and a non-empty list of errors
FailureWithErrorList(result) ==
    /\ result.success = FALSE
    /\ "errors" \in DOMAIN result
    /\ Len(result.errors) >= 1

\* C19: on a fatal failure (empty or blank session_id, no document id left
\* after cleaning, or every document failing) process_documents does not raise:
\* it returns a result with success false and an error list, and after a
\* validation failure no download, embedding or upload request is made.
C19_FatalFailureGivesErrorList ==
    mode = "ingest" =>
        /\ raised = ""
        /\ ValidationFails => log = <<>> /\ pc \in {"start", "returned"}
        /\ (ValidationFails /\ pc = "returned") =>
               Len(ret) = 1 /\ FailureWithErrorList(ret[1])
        /\ (AllDocumentsFailed /\ pc = "returned") =>
               Len(ret) = 1 /\ FailureWithErrorList(ret[1])

\* the content requests and pauses download_document made for a document, in order
DownloadTrace(document_id) ==
    SelectSeq(log, LAMBDA ev : ev.doc = document_id /\ ev.op \in {"GET content", "sleep"})

ContentRequests(document_id) ==
    SelectSeq(log, LAMBDA ev : ev.doc = document_id /\ ev.op = "GET content")

\* C20: for one document download_document makes at most max_download_retries
\* content requests, stops at the first one that succeeds, pauses 0.5 * k
\* seconds after the k-th failed request, raises ProcessingError after the last
\* failed attempt, and that failure aborts only this document: the remaining
\* documents are still processed.
C20_DownloadRetriesBounded ==
    Ingesting =>
        /\ \A k \in 1..state.doc_idx :
             LET document_id == state.clean_documents[k]
                 trace == DownloadTrace(document_id)
                 m == Len(ContentRequests(document_id))
                 attempts == state.done[k].attempts
             IN  /\ m <= param.max_download_retries
                 /\ Len(trace) = IF m = 0 THEN 0 ELSE 2 * m - 1
                 /\ \A j \in 1..m :
                        /\ trace[2 * j - 1].op = "GET content" /\ trace[2 * j - 1].n = j
                        /\ j < m => /\ attempts[j] = "request_error"
                                    /\ trace[2 * j].op = "sleep"
                                    /\ trace[2 * j].n = j
                 /\ (m >= 1 /\ attempts[m] = "request_error") =>
                        /\ m = param.max_download_retries
                        /\ state.done[k].t = "raise"
                        /\ state.done[k].type = "ProcessingError"
                        /\ state.done[k].e = "Download failed for " \o document_id
                                             \o ": connection error"
        /\ pc \in {"upload", "summary", "returned"} =>
               state.doc_idx = Len(state.clean_documents)
        /\ state.all_chunks = ChunksUpTo(state.doc_idx)

\* a document whose content requests all failed, as many as the largest
\* configured number of retries, with a pause after each but the last, followed
\* by a document that was processed
C20_Witness ==
    /\ Ingesting
    /\ param.max_download_retries = MaxRetries
    /\ state.doc_idx = 2
    /\ Len(ContentRequests(state.clean_documents[1])) = MaxRetries
    /\ state.done[1].type = "ProcessingError"
    /\ Len(DownloadTrace(state.clean_documents[1])) = 2 * MaxRetries - 1
    /\ ~DocFailed(2)

\* the k-th document of the run got as far as embedding its chunks
ReachedEmbedding(k) == DocResult(k).t = "ok"

\* the split indexes of the k-th document whose embedding succeeded, in order
EmbeddedIndexes(k) ==
    SelectSeq([j \in 1..DocResult(k).nchunks |-> j - 1],
              LAMBDA i : DocResult(k).embed[i].t = "ok")

\* the embedding requests made for the chunks of a document, in order
EmbedRequests(document_id, n) ==
    SelectSeq(log, LAMBDA ev : /\ ev.op = "POST context"
                               /\ \E i \in 0..(n - 1) : ev.doc = ChunkText(document_id, i))

\* C21: within one document a failure to embed chunk i drops only chunk i:
\* every chunk is sent to the embedding endpoint, every chunk whose embedding
\* succeeded is recorded with its split index as chunk_index, in increasing
\* order, and the document is not aborted.
C21_EmbeddingFailureDropsOneChunk ==
    Ingesting =>
        \A k \in 1..state.doc_idx :
            ReachedEmbedding(k) =>
                LET recorded == DocResult(k).chunks
                    n == DocResult(k).nchunks
                    document_id == state.clean_documents[k]
                IN  /\ [j \in 1..Len(recorded) |-> recorded[j].chunk_index] = EmbeddedIndexes(k)
                    /\ \A j \in 1..Len(recorded) :
                           /\ recorded[j].chunk_text = ChunkText(document_id, recorded[j].chunk_index)
                           /\ recorded[j].vector = DocResult(k).embed[recorded[j].chunk_index].v
                    /\ [j \in 1..Len(EmbedRequests(document_id, n)) |->
                            EmbedRequests(document_id, n)[j].n] = [j \in 1..n |-> j - 1]

\* a document of two chunks whose first embedding failed: the second chunk is
\* recorded with chunk_index 1
C21_Witness ==
    /\ Ingesting
    /\ state.doc_idx >= 1
    /\ ReachedEmbedding(1)
    /\ DocResult(1).nchunks = 2
    /\ DocResult(1).embed[0].t = "raise"
    /\ Len(DocResult(1).chunks) = 1
    /\ DocResult(1).chunks[1].chunk_index = 1

\* the k-th document yielded zero chunk records: the splitter produced no
\* chunks, or every chunk's embedding failed
SplitterGaveNothing(k) ==
    /\ DocResult(k).t = "raise"
    /\ DocResult(k).type = "ProcessingError"
    /\ StartsWith(DocResult(k).e, "No chunks generated for ")

EveryEmbeddingFailed(k) ==
    /\ DocResult(k).t = "ok"
    /\ DocResult(k).nchunks >= 1
    /\ \A i \in 0..(DocResult(k).nchunks - 1) : DocResult(k).embed[i].t = "raise"

ZeroChunkRecords(k) == SplitterGaveNothing(k) \/ EveryEmbeddingFailed(k)

\* the documents among the first k that count as processed
Counted(k) == {j \in 1..k : ~DocFailed(j)}

RECURSIVE BytesUpTo(_)
\* the file sizes of the documents among the first k that count as processed
BytesUpTo(k) ==
    IF k = 0 THEN 0
    ELSE BytesUpTo(k - 1) + (IF DocFailed(k) THEN 0 ELSE DocResult(k).file_size)

\* C22: a document that yields zero chunk records is treated as failed: it is
\* not counted in documents_processed, contributes no bytes to total_size_bytes
\* and adds exactly one entry to errors.
C22_ZeroChunkDocumentFailed ==
    Ingesting =>
        /\ \A k \in 1..state.doc_idx :
               ZeroChunkRecords(k) =>
                   /\ DocFailed(k)
                   /\ Cardinality(EntriesNaming(state.errors, state.clean_documents[k])) = 1
        /\ state.processed_count = Cardinality(Counted(state.doc_idx))
        /\ state.total_size = BytesUpTo(state.doc_idx)
        /\ SummaryReturned =>
               /\ ret[1].documents_processed = Cardinality(Counted(state.doc_idx))
               /\ ret[1].total_size_bytes = BytesUpTo(state.doc_idx)
               /\ \A k \in 1..state.doc_idx :
                      ZeroChunkRecords(k) =>
                          Cardinality(EntriesNaming(ret[1].errors, state.clean_documents[k])) = 1

\* a run of two documents: the first processed, every embedding of the second
\* failed; one document and its bytes are counted and errors has one entry
C22_Witness ==
    /\ SummaryReturned
    /\ Len(state.clean_documents) = 2
    /\ ~DocFailed(1)
    /\ EveryEmbeddingFailed(2)
    /\ DocResult(2).nchunks = 2
    /\ ret[1].documents_processed = 1
    /\ ret[1].total_size_bytes = GoodMeta.file_size
    /\ ret[1].errors = <<"No chunks generated for " \o state.clean_documents[2]>>

\* process_documents returned after creating its temporary directory
ReturnedAfterWith == Ingesting /\ pc = "returned"

\* some document of the run had its content written to the temporary directory
SomeFileDownloaded ==
    \E k \in 1..state.doc_idx :
        FilesWritten(state.clean_documents[k], param.max_download_retries,
                     DocResult(k).meta, DocResult(k).attempts) # {}

-----------------------------------------------------------------------------
(* The same document processed by two pipeline runs *)

\* what the external calls do while one document of n chunks is processed: the
\* download and the loader succeed, the embeddings of the chunks in failing fail
Reprocessed(document_id, n, failing) ==
    [meta |-> Ok(GoodMeta), attempts |-> <<"ok">>, load |-> "ok", nchunks |-> n,
     embed |-> [i \in 0..(n - 1) |-> IF i \in failing THEN Raise("connection error")
                                     ELSE Embedding(ChunkText(document_id, i))]]

ReprocessInit ==
    /\ keepUndeclared = TRUE
    /\ mode = "reprocess"
    /\ pc = "first"
    /\ state = <<>>
    /\ \E d \in {"d1", "d2"}, s1 \in {"s1", "s2"}, s2 \in {"s1", "s2"}, n \in 1..MaxChunksPerDoc :
           \E f1 \in SUBSET (0..(n - 1)), f2 \in SUBSET (0..(n - 1)) :
               param = [document_id |-> d, sessions |-> <<s1, s2>>,
                        docs |-> <<Reprocessed(d, n, f1), Reprocessed(d, n, f2)>>]
    /\ executed = <<>>
    /\ decision_text = <<>>
    /\ handed_plan = <<>>
    /\ log = <<>>
    /\ raised = ""
    /\ ret = <<>>
    /\ chunks = <<>>
    /\ yielded = <<>>
    /\ twin_pc = "idle"
    /\ twin_state = <<>>

\* _process_single_document on the document in the first run
process_first ==
    /\ mode = "reprocess"
    /\ pc = "first"
    /\ LET r == _process_single_document(param.document_id, param.sessions[1], 1, param.docs[1])
       IN  /\ twin_state' = r.v.chunks
           /\ log' = log \o r.log
    /\ pc' = "second"
    /\ UNCHANGED <<twin_pc, state, keepUndeclared, mode, param, executed, decision_text,
                   handed_plan, raised, ret, chunks, yielded>>

\* _process_single_document on the same document in a later run
process_again ==
    /\ mode = "reprocess"
    /\ pc = "second"
    /\ LET r == _process_single_document(param.document_id, param.sessions[2], 1, param.docs[2])
       IN  /\ state' = r.v.chunks
           /\ log' = log \o r.log
    /\ pc' = "done"
    /\ UNCHANGED <<twin_pc, twin_state, keepUndeclared, mode, param, executed, decision_text,
                   handed_plan, raised, ret, chunks, yielded>>

ReprocessNext ==
    \/ process_first
    \/ process_again

ReprocessSpec == ReprocessInit /\ [][ReprocessNext]_vars

\* both runs are over
ProcessedTwice == mode = "reprocess" /\ pc = "done"

\* C24: chunk_id is a deterministic function of (document_id, chunk_index,
\* first 50 characters of the chunk text): a chunk recorded by both runs has the
\* same chunk_id in both, whatever the session and whichever other chunks of
\* the document failed to embed.
C24_ChunkIdDeterministic ==
    ProcessedTwice =>
        \A j \in 1..Len(twin_state), k \in 1..Len(state) :
            ( /\ twin_state[j].document_id = state[k].document_id
              /\ twin_state[j].chunk_index = state[k].chunk_index
              /\ Prefix(twin_state[j].chunk_text, 50) = Prefix(state[k].chunk_text, 50) )
                => twin_state[j].chunk_id = state[k].chunk_id

\* two runs in different sessions recorded chunk 1 of the document, the second
\* run after failing to embed chunk 0
C24_Witness ==
    /\ ProcessedTwice
    /\ param.sessions[1] # param.sessions[2]
    /\ Len(twin_state) = 2
    /\ Len(state) = 1
    /\ state[1].chunk_index = 1
    /\ twin_state[2].chunk_id = state[1].chunk_id

-----------------------------------------------------------------------------
(* The search services of the question-answering flow: the semantic search
   service and the upload search service *)

\* what makes session.post or raise_for_status raise requests.RequestException
RequestFailures == {"connection_error", "timeout", "http_error"}

\* the answers to a POST: a request-level failure, a 2xx response whose body is
\* not JSON, a 2xx response with a JSON body
Failed(kind) == [kind |-> kind, body |-> PyNone]
NotJson == [kind |-> "not_json", body |-> PyNone]
Body(json) == [kind |-> "body", body |-> json]

\* bool(x) of a JSON value
JsonTruthy(x) ==
    CASE x.t = "none" -> FALSE
      [] x.t = "list" -> Len(x.v) > 0
      [] x.t = "dict" -> DOMAIN x.v # {}

\* the exception response.json() raises on a body that is not JSON: a
\* requests.RequestException in requests 2.27 and later, a ValueError before
JsonErrorTypes == {"RequestException", "ValueError"}

QueryVector == <<1, 2>>

\* generate_embedding of the semantic search service
generate_embedding(answer, json_error) ==
    IF answer.kind \in RequestFailures
    THEN Thrown("APISearchError", "Embedding generation failed: " \o answer.kind)
    ELSE IF answer.kind = "not_json"
    THEN IF json_error = "RequestException"
         THEN Thrown("APISearchError", "Embedding generation failed: not JSON")
         ELSE Thrown("ValueError", "not JSON")
    ELSE LET data == answer.body
         IN  IF ~JsonTruthy(data)
             THEN Thrown("APISearchError", "Empty embedding response from API")
             ELSE IF data.t # "list" THEN Thrown("KeyError", "0")
             ELSE IF "emb" \notin DOMAIN data.v[1] THEN Thrown("KeyError", "'emb'")
             ELSE Ok(data.v[1].emb)

\* PostUploadSearcher.generate_embedding: whatever is raised is logged and raised again
PostUploadSearcher_generate_embedding(answer, json_error) ==
    IF answer.kind \in RequestFailures
    THEN Thrown("RequestException", answer.kind)
    ELSE IF answer.kind = "not_json"
    THEN Thrown(json_error, "not JSON")
    ELSE LET data == answer.body
         IN  IF ~JsonTruthy(data)
             THEN Thrown("Exception", "Empty embedding response")
             ELSE IF data.t # "list" THEN Thrown("KeyError", "0")
             ELSE IF "emb" \notin DOMAIN data.v[1] THEN Thrown("KeyError", "'emb'")
             ELSE Ok(data.v[1].emb)

\* one search hit in the standard structure; source is the "source" entry of the payload
FormattedResult(result, source) ==
    [id |-> result.chunk_id,
     score |-> result.similarity_score,
     payload |-> [chunk_id |-> result.chunk_id,
                  document_id |-> result.document_id,
                  doc_title |-> result.document_title,
                  chunk_content |-> result.chunk_text,
                  source |-> source]]

\* format_search_results
format_search_results(results) ==
    [j \in 1..Len(results) |-> FormattedResult(results[j], "search")]

\* perform_semantic_search
perform_semantic_search(answer, json_error) ==
    IF answer.kind \in RequestFailures
    THEN Thrown("APISearchError", "Search operation failed: " \o answer.kind)
    ELSE IF answer.kind = "not_json"
    THEN IF json_error = "RequestException"
         THEN Thrown("APISearchError", "Search operation failed: not JSON")
         ELSE Thrown("ValueError", "not JSON")
    ELSE LET api_response == answer.body
         IN  IF api_response.t # "dict"
             THEN Thrown("AttributeError", "object has no attribute 'get'")
             ELSE Ok(format_search_results(IF "results" \in DOMAIN api_response.v
                                           THEN api_response.v.results ELSE <<>>))

\* PostUploadSearcher.search_uploaded_content: every exception gives []
search_uploaded_content(answer, json_error) ==
    IF answer.kind \in RequestFailures \/ answer.kind = "not_json" \/ answer.body.t # "dict"
    THEN Ok(<<>>)
    ELSE LET results == IF "results" \in DOMAIN answer.body.v
                        THEN answer.body.v.results ELSE <<>>
         IN  Ok([j \in 1..Len(results) |-> FormattedResult(results[j], "upload")])

\* the except clauses of main of the semantic search service: APISearchError is
\* raised again, any other exception gives []
SemanticMainExcept(r) ==
    IF r.type = "APISearchError" THEN r ELSE Ok(<<>>)

\* the except clause of main of the upload search service
UploadMainExcept(r) == Ok(<<>>)

\* the answers of the embedding endpoint
EmbeddingAnswers ==
    {Failed(k) : k \in RequestFailures}
        \cup {NotJson,
              Body(PyList(<<[emb |-> QueryVector]>>)),
              Body(PyList(<<>>)),
              Body(PyNone),
              Body(PyDict(<<>>)),
              Body(PyList(<<[vector |-> QueryVector]>>)),
              Body(PyDict([emb |-> QueryVector]))}

\* a hit of the search endpoint
Hit(k) ==
    [chunk_id |-> "c" \o ToString(k), similarity_score |-> 10 - k, document_id |-> "d1",
     document_title |-> "a.pdf", chunk_text |-> "text " \o ToString(k) \o " of d1"]

\* the answers of the search endpoint
SearchAnswers ==
    {Failed(k) : k \in RequestFailures}
        \cup {NotJson,
              Body(PyDict([results |-> <<>>])),
              Body(PyDict([results |-> <<Hit(1)>>])),
              Body(PyDict([results |-> <<Hit(1), Hit(2)>>])),
              Body(PyDict([detail |-> "none"])),
              Body(PyList(<<>>))}

\* the calls of main of the two services
SearchCalls ==
    { [service |-> sv, query |-> q, tenant |-> tn, processing_result |-> pr]
        : sv \in {"semantic", "upload"}, q \in {"q1", "q2"}, tn \in {"", "beq"},
          pr \in BOOLEAN }

SearchInit ==
    /\ keepUndeclared = TRUE
    /\ mode = "search"
    /\ pc = "start"
    /\ state = <<>>
    /\ param \in SearchCalls
    /\ executed = <<>>
    /\ decision_text = <<>>
    /\ handed_plan = <<>>
    /\ log = <<>>
    /\ raised = ""
    /\ ret = <<>>
    /\ chunks = <<>>
    /\ yielded = <<>>
    /\ twin_pc = "idle"
    /\ twin_state = <<>>

\* main returns value, or lets the exception r escape, after the with block is left
SearchLeave(r) ==
    /\ pc' = IF r.t = "raise" THEN "failed" ELSE "returned"
    /\ ret' = IF r.t = "raise" THEN ret ELSE <<r.v>>
    /\ raised' = IF r.t = "raise" THEN r.type ELSE raised

\* main up to the embedding request: the upload search service returns [] when
\* there is no processing result; otherwise the session is opened
search_open ==
    /\ mode = "search"
    /\ pc = "start"
    /\ IF param.service = "upload" /\ ~param.processing_result
       THEN /\ SearchLeave(Ok(<<>>))
            /\ state' = state
       ELSE /\ state' = [session |-> "open", query_embedding |-> <<>>]
            /\ pc' = "embed"
            /\ UNCHANGED <<ret, raised>>
    /\ UNCHANGED <<twin_pc, twin_state, keepUndeclared, mode, param, executed, decision_text,
                   handed_plan, log, chunks, yielded>>

\* the embedding request of main; log remembers what the endpoint answered and
\* the class of the exception the called function raised, "" if it returned
search_embed ==
    /\ mode = "search"
    /\ pc = "embed"
    /\ \E answer \in EmbeddingAnswers, json_error \in JsonErrorTypes :
         LET r == IF param.service = "semantic"
                  THEN generate_embedding(answer, json_error)
                  ELSE PostUploadSearcher_generate_embedding(answer, json_error)
         IN  /\ log' = Append(log, [op |-> "POST query", answer |-> answer,
                                     raised |-> IF r.t = "raise" THEN r.type ELSE ""])
             /\ IF r.t = "raise"
                THEN /\ SearchLeave(IF param.service = "semantic"
                                    THEN SemanticMainExcept(r) ELSE UploadMainExcept(r))
                     /\ state' = [state EXCEPT !.session = "closed"]
                ELSE /\ state' = [state EXCEPT !.query_embedding = r.v]
                     /\ pc' = "search"
                     /\ UNCHANGED <<ret, raised>>
    /\ UNCHANGED <<twin_pc, twin_state, keepUndeclared, mode, param, executed, decision_text,
                   handed_plan, chunks, yielded>>

\* the search request of main and its return
search_post ==
    /\ mode = "search"
    /\ pc = "search"
    /\ \E answer \in SearchAnswers, json_error \in JsonErrorTypes :
         LET r == IF param.service = "semantic"
                  THEN perform_semantic_search(answer, json_error)
                  ELSE search_uploaded_content(answer, json_error)
         IN  /\ log' = Append(log, [op |-> "POST search", answer |-> answer,
                                     raised |-> IF r.t = "raise" THEN r.type ELSE ""])
             /\ SearchLeave(IF r.t # "raise" THEN r
                            ELSE IF param.service = "semantic"
                            THEN SemanticMainExcept(r) ELSE UploadMainExcept(r))
             /\ state' = [state EXCEPT !.session = "closed"]
    /\ UNCHANGED <<twin_pc, twin_state, keepUndeclared, mode, param, executed, decision_text,
                   handed_plan, chunks, yielded>>

SearchNext ==
    \/ search_open
    \/ search_embed
    \/ search_post

SearchSpec == SearchInit /\ [][SearchNext]_vars

\* main of a search service is over: it returned or let an exception escape
SearchOver == mode = "search" /\ pc \in {"returned", "failed"}

\* the POSTs of the run to the named endpoint
PostsTo(op) == SelectSeq(log, LAMBDA ev : ev.op = op)

\* the search POST of the run failed at request level
SearchRequestFailed ==
    /\ Len(PostsTo("POST search")) = 1
    /\ PostsTo("POST search")[1].answer.kind \in RequestFailures

\* main returned the empty list
ReturnedEmptyList == pc = "returned" /\ ret = << <<>> >> /\ raised = ""

\* C25: for both search services a request-level failure of the search POST
\* (connection error, timeout, non-2xx status) makes main return an empty list
\* to its caller instead of propagating an error.
C25_SearchFailureGivesEmptyList ==
    (SearchOver /\ SearchRequestFailed) => ReturnedEmptyList

\* the body of an answer is empty: [], {} or null
EmptyBody(answer) == answer.kind = "body" /\ ~JsonTruthy(answer.body)

\* the body of an answer is malformed: not JSON, not a list, or a list whose
\* first element has no emb field
MalformedBody(answer) ==
    \/ answer.kind = "not_json"
    \/ /\ answer.kind = "body"
       /\ JsonTruthy(answer.body)
       /\ \/ answer.body.t # "list"
          \/ "emb" \notin DOMAIN answer.body.v[1]

\* the typed error of the search services
TypedSearchErrors == {"APISearchError"}

\* C26: generate_embedding fails with the typed embedding/search error
\* whenever the embedding endpoint returns an empty or a malformed body, and
\* never returns a vector in those cases.
C26_EmbeddingBodyRejectedWithTypedError ==
    mode = "search" =>
        \A j \in 1..Len(PostsTo("POST query")) :
            LET ev == PostsTo("POST query")[j]
            IN  (EmptyBody(ev.answer) \/ MalformedBody(ev.answer))
                    => ev.raised \in TypedSearchErrors

-----------------------------------------------------------------------------
(* The reranking service *)

MaxResults == 3

\* the k-th search result handed to the service, a dict or an object with the
\* same attributes
SearchResult(k, py) ==
    [py |-> py, id |-> "c" \o ToString(k), score |-> 10 - k,
     payload |-> [chunk_id |-> "c" \o ToString(k), document_id |-> "d1",
                  doc_title |-> "a.pdf",
                  chunk_content |-> "text " \o ToString(k) \o " of d1",
                  source |-> "search"]]

\* ResultReranker._extract_contexts
_extract_contexts(search_results) ==
    [j \in 1..Len(search_results) |-> search_results[j].payload.chunk_content]

\* ResultReranker._call_reranking_api
_call_reranking_api(answer, json_error) ==
    IF answer.kind \in RequestFailures THEN Thrown("RequestException", answer.kind)
    ELSE IF answer.kind = "not_json" THEN Thrown(json_error, "not JSON")
    ELSE IF answer.body.t # "dict"
    THEN Thrown("AttributeError", "object has no attribute 'get'")
    ELSE Ok(IF "scores" \in DOMAIN answer.body.v THEN answer.body.v.scores ELSE <<>>)

\* the copy of a result that carries its rerank score
WithRerankScore(result, score) ==
    [py |-> "dict", id |-> result.id, score |-> result.score, payload |-> result.payload,
     rerank_score |-> score]

\* variant: a result is put before the results of equal rerank score
InsertByScore_before_equal(sorted, x) ==
    LET before == SelectSeq(sorted, LAMBDA y : y.rerank_score > x.rerank_score)
        after == SelectSeq(sorted, LAMBDA y : y.rerank_score <= x.rerank_score)
    IN  before \o <<x>> \o after

\* x put into a list ordered by descending rerank score, behind the results
\* whose score is not lower
InsertByScore(sorted, x) ==
    LET before == SelectSeq(sorted, LAMBDA y : y.rerank_score >= x.rerank_score)
        after == SelectSeq(sorted, LAMBDA y : y.rerank_score < x.rerank_score)
    IN  before \o <<x>> \o after

RECURSIVE SortByRerankScore(_, _)
\* list.sort(key=rerank_score, reverse=True): a stable sort, the items of equal
\* key keep their order
SortByRerankScore(items, sorted) ==
    IF Len(items) = 0 THEN sorted
    ELSE SortByRerankScore(Tail(items), InsertByScore(sorted, Head(items)))

\* ResultReranker._apply_reranking_scores
_apply_reranking_scores(search_results, scores) ==
    LET n == IF Len(scores) < Len(search_results) THEN Len(scores) ELSE Len(search_results)
        reranked_results == [j \in 1..n |-> WithRerankScore(search_results[j], scores[j])]
    IN  SortByRerankScore(reranked_results, <<>>)

\* variant: the scores are applied to as many results as there are scores
rerank_results_truncating(search_results, answer, json_error) ==
    IF Len(search_results) = 0 THEN search_results
    ELSE LET scores == _call_reranking_api(answer, json_error)
         IN  IF scores.t = "raise" THEN search_results
             ELSE IF Len(scores.v) = 0 THEN search_results
             ELSE _apply_reranking_scores(search_results, scores.v)

\* ResultReranker.rerank_results
rerank_results(search_results, answer, json_error) ==
    IF Len(search_results) = 0 THEN search_results
    ELSE LET scores == _call_reranking_api(answer, json_error)
         IN  IF scores.t = "raise" THEN search_results
             ELSE IF Len(scores.v) = 0 \/ Len(scores.v) # Len(search_results)
             THEN search_results
             ELSE _apply_reranking_scores(search_results, scores.v)

\* the score lists of the rerank endpoint: up to one score more than results
ScoreLists == UNION { [1..n -> {1, 2}] : n \in 0..(MaxResults + 1) }

\* the answers of the rerank endpoint
RerankAnswers ==
    {Failed(k) : k \in RequestFailures}
        \cup {NotJson, Body(PyDict([detail |-> "none"])), Body(PyList(<<>>))}
        \cup {Body(PyDict([scores |-> scores])) : scores \in ScoreLists}

\* the calls of main of the reranking service
RerankCalls ==
    { [query |-> "q1", search_results |-> [k \in 1..n |-> SearchResult(k, py)],
       enable_rerank |-> en]
        : n \in 0..MaxResults, py \in {"dict", "object"}, en \in BOOLEAN }

RerankInit ==
    /\ keepUndeclared = TRUE
    /\ mode = "rerank"
    /\ pc = "start"
    /\ state = <<>>
    /\ param \in RerankCalls
    /\ executed = <<>>
    /\ decision_text = <<>>
    /\ handed_plan = <<>>
    /\ log = <<>>
    /\ raised = ""
    /\ ret = <<>>
    /\ chunks = <<>>
    /\ yielded = <<>>
    /\ twin_pc = "idle"
    /\ twin_state = <<>>

\* main up to the with block: the results are returned as they are when
\* reranking is disabled or there are none
rerank_open ==
    /\ mode = "rerank"
    /\ pc = "start"
    /\ IF ~param.enable_rerank \/ Len(param.search_results) = 0
       THEN /\ ret' = <<param.search_results>>
            /\ pc' = "returned"
            /\ state' = state
       ELSE /\ state' = [session |-> "open"]
            /\ pc' = "rerank"
            /\ ret' = ret
    /\ UNCHANGED <<twin_pc, twin_state, keepUndeclared, mode, param, executed, decision_text,
                   handed_plan, log, raised, chunks, yielded>>

\* the with block of main: rerank_results and the return
rerank_call ==
    /\ mode = "rerank"
    /\ pc = "rerank"
    /\ \E answer \in RerankAnswers, json_error \in JsonErrorTypes :
         /\ log' = Append(log, [op |-> "POST rerank", answer |-> answer,
                                contexts |-> _extract_contexts(param.search_results)])
         /\ ret' = <<rerank_results(param.search_results, answer, json_error)>>
    /\ state' = [state EXCEPT !.session = "closed"]
    /\ pc' = "returned"
    /\ UNCHANGED <<twin_pc, twin_state, keepUndeclared, mode, param, executed, decision_text,
                   handed_plan, raised, chunks, yielded>>

RerankNext ==
    \/ rerank_open
    \/ rerank_call

RerankSpec == RerankInit /\ [][RerankNext]_vars

\* main of the reranking service returned
RerankOver == mode = "rerank" /\ pc = "returned"

\* the rerank endpoint was called
RerankCalled == Len(log) = 1

\* the score list in the answer of the rerank endpoint, if it gave one
GivenScores ==
    IF RerankCalled /\ log[1].answer.kind = "body" /\ log[1].answer.body.t = "dict"
           /\ "scores" \in DOMAIN log[1].answer.body.v
    THEN <<log[1].answer.body.v.scores>>
    ELSE <<>>

\* the rerank call failed: the request failed or its body could not be read
RerankCallFailed ==
    /\ RerankCalled
    /\ \/ log[1].answer.kind # "body"
       \/ log[1].answer.body.t # "dict"

\* the score list is empty (or absent), or not as long as the input
ScoresUnusable ==
    /\ RerankCalled
    /\ ~RerankCallFailed
    /\ \/ GivenScores = <<>>
       \/ Len(GivenScores[1]) = 0
       \/ Len(GivenScores[1]) # Len(param.search_results)

\* C27: the reranking service returns the input results in exactly their
\* input order, unchanged, whenever reranking is disabled, the input is empty,
\* the rerank call fails, or the rerank endpoint returns a score list that is
\* empty or whose length differs from the number of input results.
C27_OriginalOrderWhenNotReranked ==
    ( /\ RerankOver
      /\ \/ ~param.enable_rerank
         \/ Len(param.search_results) = 0
         \/ RerankCallFailed
         \/ ScoresUnusable )
        => ret = <<param.search_results>>

\* three results and a list of two scores that would reorder them: the results
\* come back as they were
C27_Witness ==
    /\ RerankOver
    /\ Len(param.search_results) = 3
    /\ GivenScores = << <<1, 2>> >>
    /\ ret = <<param.search_results>>

\* one score per input result was returned and applied
Reranked ==
    /\ RerankOver
    /\ RerankCalled
    /\ GivenScores # <<>>
    /\ Len(GivenScores[1]) = Len(param.search_results)
    /\ Len(GivenScores[1]) > 0

\* the position in the input of the result with the id of the j-th output result
InputIndex(j) == CHOOSE k \in 1..Len(param.search_results) : param.search_results[k].id = ret[1][j].id

\* C28: when the rerank endpoint returns one score per input result, the
\* output is a permutation of the input results, each with its own score,
\* ordered by descending rerank score, and results with equal rerank scores
\* keep their relative input order.
C28_StableDescendingRerank ==
    Reranked =>
        LET out == ret[1]
            n == Len(param.search_results)
        IN  /\ Len(out) = n
            /\ {out[j].id : j \in 1..n} = {param.search_results[k].id : k \in 1..n}
            /\ \A j \in 1..n :
                   out[j] = WithRerankScore(param.search_results[InputIndex(j)],
                                            GivenScores[1][InputIndex(j)])
            /\ \A j \in 1..n, k \in 1..n :
                   j < k => \/ out[j].rerank_score > out[k].rerank_score
                            \/ /\ out[j].rerank_score = out[k].rerank_score
                               /\ InputIndex(j) < InputIndex(k)

\* scores 1, 2, 1 for three results: the second comes first, the first and the
\* third follow in their input order
C28_Witness ==
    /\ Reranked
    /\ GivenScores = << <<1, 2, 1>> >>
    /\ [j \in 1..3 |-> ret[1][j].id] = <<"c2", "c1", "c3">>

-----------------------------------------------------------------------------
(* The context service *)

MaxItems == 8

\* a or b on strings
OrElse(a, b) == IF a # "" THEN a ELSE b

\* the text _extract_context_item reads from a payload:
\* chunk_content or text or chunk_text or ""
PayloadText(payload) ==
    OrElse(Get(payload, "chunk_content", ""),
           OrElse(Get(payload, "text", ""), Get(payload, "chunk_text", "")))

\* ContextProcessor._extract_context_item: PyNone, or the ContextItem
_extract_context_item(result) ==
    IF result.py # "dict" THEN PyNone
    ELSE LET payload == Get(result.v, "payload", <<>>)
             text == PayloadText(payload)
         IN  IF Strip(text) = "" THEN PyNone
             ELSE [t |-> "item",
                   id |-> Get(result.v, "id", "unknown"),
                   score |-> Get(result.v, "score", 0),
                   text |-> Strip(text),
                   metadata |-> payload,
                   source |-> Get(payload, "source", "search")]

\* ContextProcessor._validate_context_item with min_score_threshold 0.0
_validate_context_item(context_item) ==
    IF context_item.score < 0 THEN FALSE
    ELSE IF Len(context_item.text) < 10 THEN FALSE
    ELSE TRUE

RECURSIVE process_search_results(_)
\* ContextProcessor.process_search_results
process_search_results(search_results) ==
    IF Len(search_results) = 0 THEN <<>>
    ELSE LET context_item == _extract_context_item(Head(search_results))
         IN  (IF context_item # PyNone /\ _validate_context_item(context_item)
              THEN <<context_item>> ELSE <<>>)
                 \o process_search_results(Tail(search_results))

\* the sort key (x.score, len(x.text)) of a is greater than, or equal to, that of b
KeyGreater(a, b) ==
    a.score > b.score \/ (a.score = b.score /\ Len(a.text) > Len(b.text))

KeyEqual(a, b) == a.score = b.score /\ Len(a.text) = Len(b.text)

\* x put into a list ordered by descending key, behind the items whose key is
\* not lower
InsertByKey(sorted, x) ==
    LET before == SelectSeq(sorted, LAMBDA y : KeyGreater(y, x) \/ KeyEqual(y, x))
        after == SelectSeq(sorted, LAMBDA y : KeyGreater(x, y))
    IN  before \o <<x>> \o after

RECURSIVE SortByKey(_, _)
\* sorted(contexts, key=..., reverse=True): stable
SortByKey(items, sorted) ==
    IF Len(items) = 0 THEN sorted
    ELSE SortByKey(Tail(items), InsertByKey(sorted, Head(items)))

\* variant: the sort key is the score alone
select_top_contexts_by_score_only(contexts, max_contexts) ==
    LET scored == [j \in 1..Len(contexts) |->
                       [rerank_score |-> contexts[j].score, item |-> contexts[j]]]
        sorted_contexts == SortByRerankScore(scored, <<>>)
    IN  [j \in 1..(IF Len(contexts) < max_contexts THEN Len(contexts) ELSE max_contexts)
            |-> sorted_contexts[j].item]

\* ContextProcessor.select_top_contexts
select_top_contexts(contexts, max_contexts) ==
    IF Len(contexts) = 0 THEN <<>>
    ELSE LET sorted_contexts == SortByKey(contexts, <<>>)
         IN  SubSeq(sorted_contexts, 1,
                    IF Len(sorted_contexts) < max_contexts THEN Len(sorted_contexts)
                    ELSE max_contexts)

\* ContextProcessor._extract_document_identifier
_extract_document_identifier(context) ==
    OrElse(Get(context.metadata, "filename", ""),
           OrElse(Get(context.metadata, "doc_title", ""),
                  OrElse(Get(context.metadata, "document_title", ""),
                         OrElse(Get(context.metadata, "document_name", ""),
                                "Document " \o Prefix(context.id, 8)))))

RECURSIVE ContextParts(_, _)
\* the two parts format_contexts_for_llm adds for each context, numbered from i
ContextParts(contexts, i) ==
    IF Len(contexts) = 0 THEN <<>>
    ELSE <<"\nContext " \o ToString(i) \o " (from "
               \o _extract_document_identifier(Head(contexts)) \o "):",
           Head(contexts).text>>
             \o ContextParts(Tail(contexts), i + 1)

\* variant: the block is built for an empty list as well
format_contexts_for_llm_always_block(contexts) ==
    Join("\n", <<"=== REFERENCE INFORMATION ===">> \o ContextParts(contexts, 1)
                   \o <<"\n=== END REFERENCE INFORMATION ===">>)

\* ContextProcessor.format_contexts_for_llm
format_contexts_for_llm(contexts) ==
    IF Len(contexts) = 0 THEN ""
    ELSE Join("\n", <<"=== REFERENCE INFORMATION ===">> \o ContextParts(contexts, 1)
                        \o <<"\n=== END REFERENCE INFORMATION ===">>)

\* the dict main builds from a selected context: text and source, then the
\* entries of the metadata, which replace them where the keys are the same
ContextDict(context) ==
    [id |-> context.id, score |-> context.score,
     payload |-> context.metadata @@ [text |-> context.text, source |-> context.source]]

\* a search result that is a dict
DictResult(v) == [py |-> "dict", v |-> v]

\* the search results the lists of up to two results are made of
ResultKinds ==
    { DictResult([id |-> "r1", score |-> 9,
                  payload |-> [chunk_content |-> "a valid context text",
                               doc_title |-> "a.pdf", source |-> "upload"]]),
      DictResult([id |-> "r2", score |-> 9,
                  payload |-> [chunk_content |-> "short", doc_title |-> "a.pdf"]]),
      DictResult([id |-> "r3", score |-> 4,
                  payload |-> [chunk_content |-> "ten chars!", filename |-> "b.txt"]]),
      DictResult([id |-> "r4", score |-> 9,
                  payload |-> [chunk_content |-> "nine char", doc_title |-> "a.pdf"]]),
      DictResult([id |-> "r5", score |-> 9,
                  payload |-> [chunk_content |-> "   ", doc_title |-> "a.pdf"]]),
      DictResult([id |-> "r6", score |-> 4,
                  payload |-> [chunk_content |-> "", text |-> "found under text",
                               document_name |-> "c"]]),
      DictResult([id |-> "r7", score |-> 9,
                  payload |-> [chunk_text |-> "  padded  ", doc_title |-> "a.pdf"]]),
      DictResult([id |-> "r8", score |-> 9,
                  payload |-> [chunk_text |-> "  a padded valid text \n",
                               doc_title |-> "a.pdf"]]),
      DictResult([id |-> "r9", score |-> -1,
                  payload |-> [chunk_content |-> "a text below the threshold",
                               doc_title |-> "a.pdf"]]),
      DictResult([id |-> "r10-long-identifier",
                  payload |-> [chunk_content |-> "a text without a score"]]),
      DictResult([score |-> 0,
                  payload |-> [chunk_content |-> "a text without an id"]]),
      DictResult([id |-> "r12", score |-> 9]),
      [py |-> "str", v |-> [value |-> "a result that is not a dict"]] }

Alphabet == "abcdefghijklmnopqrstuvwxyzabcdefghijklmnopqrstuvwxyz"

\* the k-th result of a longer list: of kind "a" all have the same score and a
\* text that grows with k, of kind "b" the same text length and few scores
LongListResult(k, kind) ==
    IF kind = "a"
    THEN DictResult([id |-> "a" \o ToString(k), score |-> 5,
                     payload |-> [chunk_content |-> SubSeq(Alphabet, 1, 10 + k),
                                  doc_title |-> "a.pdf"]])
    ELSE DictResult([id |-> "b" \o ToString(k), score |-> 4 + (k % 3),
                     payload |-> [chunk_content |-> SubSeq(Alphabet, 1 + k, 12 + k),
                                  doc_title |-> "b.pdf"]])

\* the lists of search results handed to the service
ResultLists ==
    {<<>>}
        \cup { <<r>> : r \in ResultKinds }
        \cup { <<r1, r2>> : r1 \in ResultKinds, r2 \in ResultKinds }
        \cup UNION { { [k \in 1..n |-> LongListResult(k, kinds[k])]
                         : kinds \in [1..n -> {"a", "b"}] } : n \in 3..MaxItems }

ContextInit ==
    /\ keepUndeclared = TRUE
    /\ mode = "context"
    /\ pc = "start"
    /\ state = <<>>
    /\ \E search_results \in ResultLists, upload_mode \in BOOLEAN :
           param = [search_results |-> search_results, upload_mode |-> upload_mode]
    /\ executed = <<>>
    /\ decision_text = <<>>
    /\ handed_plan = <<>>
    /\ log = <<>>
    /\ raised = ""
    /\ ret = <<>>
    /\ chunks = <<>>
    /\ yielded = <<>>
    /\ twin_pc = "idle"
    /\ twin_state = <<>>

\* main: the processor is built and process_search_results is called
context_process ==
    /\ mode = "context"
    /\ pc = "start"
    /\ state' = [max_contexts |-> IF param.upload_mode THEN 7 ELSE 5,
                 contexts |-> process_search_results(param.search_results),
                 selected_contexts |-> <<>>]
    /\ pc' = "select"
    /\ UNCHANGED <<twin_pc, twin_state, keepUndeclared, mode, param, executed, decision_text,
                   handed_plan, log, raised, ret, chunks, yielded>>

\* main: select_top_contexts
context_select ==
    /\ mode = "context"
    /\ pc = "select"
    /\ state' = [state EXCEPT !.selected_contexts =
                                  select_top_contexts(state.contexts, state.max_contexts)]
    /\ pc' = "format"
    /\ UNCHANGED <<twin_pc, twin_state, keepUndeclared, mode, param, executed, decision_text,
                   handed_plan, log, raised, ret, chunks, yielded>>

\* main: format_contexts_for_llm, the context dicts and the return
context_format ==
    /\ mode = "context"
    /\ pc = "format"
    /\ ret' = <<[context_dicts |-> [j \in 1..Len(state.selected_contexts) |->
                                        ContextDict(state.selected_contexts[j])],
                 formatted_context |-> format_contexts_for_llm(state.selected_contexts)]>>
    /\ pc' = "returned"
    /\ UNCHANGED <<twin_pc, twin_state, keepUndeclared, mode, param, state, executed,
                   decision_text, handed_plan, log, raised, chunks, yielded>>

ContextNext ==
    \/ context_process
    \/ context_select
    \/ context_format

ContextSpec == ContextInit /\ [][ContextNext]_vars

\* the context service has selected its contexts
ContextsSelected == mode = "context" /\ pc \in {"format", "returned"}

\* K = 7 if upload_mode else 5
TopK == IF param.upload_mode THEN 7 ELSE 5

\* the text the service extracts from the j-th raw result, "" if it has none
ExtractedText(j) ==
    IF param.search_results[j].py # "dict" THEN ""
    ELSE PayloadText(Get(param.search_results[j].v, "payload", <<>>))

\* the j-th raw result qualifies: its extracted text is non-empty after
\* trimming and at least 10 characters long, and its score is at least 0.0
Qualifies(j) ==
    /\ Strip(ExtractedText(j)) # ""
    /\ Len(Strip(ExtractedText(j))) >= 10
    /\ Get(param.search_results[j].v, "score", 0) >= 0

Qualifying == {j \in 1..Len(param.search_results) : Qualifies(j)}

\* the j-th raw result is the one the context item was built from
BuiltFrom(item, j) ==
    /\ param.search_results[j].py = "dict"
    /\ item.id = Get(param.search_results[j].v, "id", "unknown")
    /\ item.score = Get(param.search_results[j].v, "score", 0)
    /\ item.text = Strip(ExtractedText(j))

\* how often an item is among the selected contexts
TimesSelected(item) ==
    Cardinality({k \in 1..Len(state.selected_contexts) : state.selected_contexts[k] = item})

ContextOver == mode = "context" /\ pc = "returned"

\* the k-th smallest element of a set of numbers
Nth(S, k) == CHOOSE x \in S : Cardinality({y \in S : y < x}) = k - 1

\* the positions around the lines of a text: before it, its newlines, after it
LineBreaks(s) == {0, Len(s) + 1} \cup {i \in 1..Len(s) : CharAt(s, i) = "\n"}

\* the lines of a text
SplitLines(s) ==
    LET breaks == LineBreaks(s)
        at == [k \in 1..Cardinality(breaks) |-> Nth(breaks, k)]
    IN  [k \in 1..(Len(at) - 1) |-> SubSeq(s, at[k] + 1, at[k + 1] - 1)]

\* the positions of the lines of the formatted context that label an entry
LabelLines(lines) == {k \in 1..Len(lines) : StartsWith(lines[k], "Context ")}

-----------------------------------------------------------------------------
(* The LLM service of the question-answering flow: CallbackLLMService.generate_response.
   Letters outside ASCII are written with stand-ins: "^" after a letter marks a
   Vietnamese letter with a diacritic, "[!]" the warning sign. *)

\* LanguageDetector.VIETNAMESE_CHARS: the marked letters
VIETNAMESE_CHARS == {"^"}

\* LanguageDetector.VIETNAMESE_WORDS: the words without a marked letter; every
\* other word of the list has a letter of VIETNAMESE_CHARS
VIETNAMESE_WORDS == {"cho", "khi", "hay", "do", "theo", "trong", "sau"}

\* the positions around the words of a text: before it, its whitespace, after it
WordBreaks(s) == {0, Len(s) + 1} \cup {i \in 1..Len(s) : CharAt(s, i) \in Whitespace}

\* set(text.split())
WordsOf(s) ==
    LET breaks == WordBreaks(s)
    IN  { SubSeq(s, a + 1, b - 1) :
            <<a, b>> \in { p \in breaks \X breaks :
                             /\ p[1] + 1 < p[2]
                             /\ \A c \in breaks : ~(p[1] < c /\ c < p[2]) } }

\* LanguageDetector.detect_language
detect_language(text) ==
    LET text_lower == Lower(text)
    IN  IF \E i \in 1..Len(text_lower) : CharAt(text_lower, i) \in VIETNAMESE_CHARS
        THEN "vietnamese"
        ELSE IF WordsOf(text_lower) \cap VIETNAMESE_WORDS # {} THEN "vietnamese"
        ELSE "english"

VietnameseFallback == "Xin lo^i, he^ tho^ng dang ga^p su^ co^ ky^ thua^t. Vui lo^ng thu^ la^i sau."
EnglishFallback == "Sorry, the system is experiencing technical difficulties. Please try again later."

\* CallbackLLMService._get_fallback_response
_get_fallback_response(question) ==
    IF detect_language(question) = "vietnamese" THEN VietnameseFallback ELSE EnglishFallback

\* PromptManager.build_user_prompt
build_user_prompt(question, context, language) ==
    LET language_parts ==
            IF language \in {"vietnamese", "Vietnamese", "vi"}
            THEN <<"[!] NGO^N NGU^ BA^T BUO^C: Ba^n PHA^I tra^ lo^i hoa^n toa^n ba^ng tie^ng Vie^t!",
                   "[!] MANDATORY LANGUAGE: You MUST respond entirely in Vietnamese!">>
            ELSE <<"[!] MANDATORY LANGUAGE: You MUST respond entirely in English!">>
        context_parts ==
            IF Strip(context) # ""
            THEN <<IF language = "vietnamese" THEN "**Ta^i lie^u tham kha^o:**"
                   ELSE "**Reference Materials:**",
                   context,
                   "\n==================================================\n">>
            ELSE <<>>
        question_header == IF language = "vietnamese" THEN "**Ca^u ho^i cu^a ngu^o^i du^ng:**"
                           ELSE "**User Question:**"
    IN  Join("\n", language_parts \o <<"\n============================================================\n">> \o context_parts
                       \o <<question_header \o " " \o question>>)

\* CallbackLLMService._build_messages; the system prompt is written "SYSTEM_PROMPT"
_build_messages(question, context, language, history) ==
    <<[role |-> "system", content |-> "SYSTEM_PROMPT"]>>
        \o [j \in 1..Len(SelectSeq(history, LAMBDA entry : entry.role \in {"user", "assistant"}))
               |-> [role |-> SelectSeq(history, LAMBDA entry :
                                           entry.role \in {"user", "assistant"})[j].role,
                    content |-> SelectSeq(history, LAMBDA entry :
                                              entry.role \in {"user", "assistant"})[j].content]]
        \o <<[role |-> "user", content |-> build_user_prompt(question, context, language)]>>

\* the URL the request goes to: callback_urls.get("stream_llm"), with a scheme
\* put in front when it has none; "" when there is no URL
StreamUrl(callback_urls) ==
    LET stream_url == Get(callback_urls, "stream_llm", "")
    IN  IF stream_url = "" THEN ""
        ELSE IF StartsWith(stream_url, "http://") \/ StartsWith(stream_url, "https://")
        THEN stream_url
        ELSE "http://" \o stream_url

\* variant: a response without content is returned as it is
ReadLLMResponse_unchecked(question, answer, json_error) ==
    IF answer.kind \in RequestFailures \/ answer.kind = "not_json"
    THEN _get_fallback_response(question)
    ELSE LET response_data == answer.body
         IN  IF response_data.t # "dict" THEN _get_fallback_response(question)
             ELSE IF ~Get(response_data.v, "status", FALSE)
             THEN _get_fallback_response(question)
             ELSE IF Get(response_data.v, "result", <<>>) = PyNone
             THEN _get_fallback_response(question)
             ELSE Get(Get(response_data.v, "result", <<>>), "content", "")

\* generate_response from the POST on: what it returns for an answer of the endpoint
ReadLLMResponse(question, answer, json_error) ==
    IF answer.kind \in RequestFailures \/ answer.kind = "not_json"
    THEN _get_fallback_response(question)
    ELSE LET response_data == answer.body
         IN  IF response_data.t # "dict" THEN _get_fallback_response(question)
             ELSE IF ~Get(response_data.v, "status", FALSE)
             THEN _get_fallback_response(question)
             ELSE IF Get(response_data.v, "result", <<>>) = PyNone
             THEN _get_fallback_response(question)
             ELSE LET response_text == Get(Get(response_data.v, "result", <<>>), "content", "")
                  IN  IF response_text = "" THEN _get_fallback_response(question)
                      ELSE response_text

\* the questions put to the service
Questions ==
    {"What is TBI?", "TBI la^ gi^?", "xin tra loi cho toi", "what do you know", "Theories", ""}

\* the answers of the generation endpoint
LLMAnswers ==
    {Failed(k) : k \in RequestFailures}
        \cup {NotJson,
              Body(PyDict([status |-> TRUE, result |-> [content |-> "an answer"]])),
              Body(PyDict([status |-> TRUE, result |-> [content |-> ""]])),
              Body(PyDict([status |-> TRUE, result |-> <<>>])),
              Body(PyDict([status |-> TRUE, result |-> PyNone])),
              Body(PyDict([status |-> TRUE])),
              Body(PyDict([status |-> FALSE, error |-> "overloaded"])),
              Body(PyDict([status |-> FALSE, result |-> [content |-> "an answer"]])),
              Body(PyDict([result |-> [content |-> "an answer"]])),
              Body(PyList(<<>>))}

\* the calls of generate_response
LLMCalls ==
    { [session_id |-> "s1", question |-> q, context |-> c, language |-> l, history |-> h,
       callback_urls |-> u]
        : q \in Questions, c \in {"", "=== REFERENCE INFORMATION ==="},
          l \in {"Vietnamese", "English"},
          h \in {<<>>, <<[role |-> "user", content |-> "hi"],
                         [role |-> "tool", content |-> "x"],
                         [role |-> "assistant", content |-> "hello"]>>},
          u \in {[stream_llm |-> "http://llm/stream"], [stream_llm |-> "llm/stream"],
                 [stream_llm |-> ""], [update |-> "http://mw/windmill/update"]} }

LLMInit ==
    /\ keepUndeclared = TRUE
    /\ mode = "llm"
    /\ pc = "start"
    /\ state = <<>>
    /\ param \in LLMCalls
    /\ executed = <<>>
    /\ decision_text = <<>>
    /\ handed_plan = <<>>
    /\ log = <<>>
    /\ raised = ""
    /\ ret = <<>>
    /\ chunks = <<>>
    /\ yielded = <<>>
    /\ twin_pc = "idle"
    /\ twin_state = <<>>

\* generate_response up to the POST: the messages and the payload are built;
\* without a callback URL the ValueError is caught and the fallback returned
llm_prepare ==
    /\ mode = "llm"
    /\ pc = "start"
    /\ LET messages == _build_messages(param.question, param.context, param.language,
                                       param.history)
           stream_url == StreamUrl(param.callback_urls)
       IN  IF stream_url = ""
           THEN /\ ret' = <<_get_fallback_response(param.question)>>
                /\ pc' = "returned"
                /\ state' = state
           ELSE /\ state' = [url |-> stream_url,
                             payload |-> [session_id |-> param.session_id,
                                          messages |-> messages, stream |-> FALSE,
                                          correlation_id |-> param.session_id]]
                /\ pc' = "post"
                /\ ret' = ret
    /\ UNCHANGED <<twin_pc, twin_state, keepUndeclared, mode, param, executed, decision_text,
                   handed_plan, log, raised, chunks, yielded>>

\* the POST of generate_response and its return
llm_post ==
    /\ mode = "llm"
    /\ pc = "post"
    /\ \E answer \in LLMAnswers, json_error \in JsonErrorTypes :
         /\ log' = Append(log, [op |-> "POST stream_llm", answer |-> answer])
         /\ ret' = <<ReadLLMResponse(param.question, answer, json_error)>>
    /\ pc' = "returned"
    /\ UNCHANGED <<twin_pc, twin_state, keepUndeclared, mode, param, state, executed,
                   decision_text, handed_plan, raised, chunks, yielded>>

LLMNext ==
    \/ llm_prepare
    \/ llm_post

LLMSpec == LLMInit /\ [][LLMNext]_vars

\* generate_response is over
LLMOver == mode = "llm" /\ pc \in {"returned", "failed"}

\* the endpoint answered with a truthy status and non-empty content
ContentGiven ==
    /\ Len(log) = 1
    /\ log[1].answer.kind = "body"
    /\ log[1].answer.body.t = "dict"
    /\ "status" \in DOMAIN log[1].answer.body.v
    /\ log[1].answer.body.v.status
    /\ "result" \in DOMAIN log[1].answer.body.v
    /\ log[1].answer.body.v.result # PyNone
    /\ "content" \in DOMAIN log[1].answer.body.v.result
    /\ log[1].answer.body.v.result.content # ""

\* the question has a Vietnamese letter or one of the listed Vietnamese words
DetectedVietnamese ==
    param.question \in {"TBI la^ gi^?", "xin tra loi cho toi", "what do you know"}

\* C31: generate_response never raises: it returns the endpoint's content when
\* the response has a truthy status and non-empty content, and in every other
\* case the fixed fallback string, in Vietnamese when the question is detected
\* as Vietnamese and in English otherwise.
C31_ContentOrLocalizedFallback ==
    /\ mode = "llm" => pc # "failed" /\ raised = ""
    /\ LLMOver =>
           ret = <<IF ContentGiven THEN log[1].answer.body.v.result.content
                   ELSE IF DetectedVietnamese THEN VietnameseFallback
                   ELSE EnglishFallback>>

\* a Vietnamese question whose request timed out: the Vietnamese fallback
C31_Witness ==
    /\ LLMOver
    /\ Len(log) = 1
    /\ log[1].answer.kind = "timeout"
    /\ param.question = "xin tra loi cho toi"
    /\ ret = <<VietnameseFallback>>

-----------------------------------------------------------------------------
(* The conversation memory: get_history and save_history over the encrypted
   session store.  The store keeps, for each session id it is opened with, the
   items added under that id, oldest first. *)

MaxSaves == 3      \* calls of save_history in one run

\* LIMIT_CHAT, the default limit of get_history
LIMIT_CHAT == 5

UserIds == {"test", "test_session"}
SessionIds == {"123", "session_123"}

\* combined_session_id = f"{user_id}_{session_id}"
combined_session_id(user_id, session_id) == user_id \o "_" \o session_id

\* the session ids the store is opened with
StoreKeys == { combined_session_id(u, s) : u \in UserIds, s \in SessionIds }

\* encrypted_session.get_items(limit): the latest limit items, oldest first
get_items(rows, limit) ==
    IF Len(rows) <= limit THEN rows ELSE SubSeq(rows, Len(rows) - limit + 1, Len(rows))

\* the conversation_items of save_history
conversation_items(user_message, assistant_message, t1, t2) ==
    <<[role |-> "user", content |-> user_message, timestamp |-> t1],
      [role |-> "assistant", content |-> assistant_message, timestamp |-> t2]>>

HistoryInit ==
    /\ keepUndeclared = TRUE
    /\ mode = "history"
    /\ pc = "ready"
    /\ state = [store |-> [k \in StoreKeys |-> <<>>],
                saved |-> [p \in UserIds \X SessionIds |-> <<>>],
                clock |-> 1,
                saves |-> 0]
    /\ param = [op |-> "none"]
    /\ executed = <<>>
    /\ decision_text = <<>>
    /\ handed_plan = <<>>
    /\ log = <<>>
    /\ raised = ""
    /\ ret = <<>>
    /\ chunks = <<>>
    /\ yielded = <<>>
    /\ twin_pc = "idle"
    /\ twin_state = <<>>

\* save_history: the session is opened, the two items are added in one
\* transaction and read back; any exception on the way gives False.  fails
\* names the store operation that raises, if any.
save_history ==
    /\ mode = "history"
    /\ state.saves < MaxSaves
    /\ \E user_id \in UserIds, session_id \in SessionIds,
          user_message \in {"hi", "bye"}, assistant_message \in {"hello"},
          later \in {0, 1},
          fails \in {"nothing", "create_encrypted_session", "add_items", "get_items"} :
         LET key == combined_session_id(user_id, session_id)
             items == conversation_items(user_message, assistant_message,
                                         state.clock, state.clock + later)
             added == fails \in {"nothing", "get_items"}
         IN  /\ param' = [op |-> "save_history", user_id |-> user_id,
                          session_id |-> session_id, items |-> items, fails |-> fails]
             /\ state' = [state EXCEPT
                    !.store[key] = IF added THEN @ \o items ELSE @,
                    !.saved[<<user_id, session_id>>] = IF added THEN @ \o items ELSE @,
                    !.clock = @ + 2,
                    !.saves = @ + 1]
             /\ ret' = <<fails = "nothing">>
    /\ twin_state' = state
    /\ UNCHANGED <<twin_pc, keepUndeclared, mode, pc, executed, decision_text, handed_plan,
                   log, raised, chunks, yielded>>

\* get_history with the default limit: the session is opened and its latest
\* items are read; any exception on the way gives the empty list
get_history ==
    /\ mode = "history"
    /\ \E user_id \in UserIds, session_id \in SessionIds,
          fails \in {"nothing", "create_encrypted_session", "get_items"} :
         /\ param' = [op |-> "get_history", user_id |-> user_id,
                      session_id |-> session_id, fails |-> fails]
         /\ ret' = IF fails = "nothing"
                   THEN get_items(state.store[combined_session_id(user_id, session_id)], LIMIT_CHAT)
                   ELSE <<>>
    /\ twin_state' = state
    /\ UNCHANGED <<twin_pc, keepUndeclared, mode, pc, state, executed, decision_text,
                   handed_plan, log, raised, chunks, yielded>>

HistoryNext ==
    \/ save_history
    \/ get_history

HistorySpec == HistoryInit /\ [][HistoryNext]_vars

\* the last call was a save_history / a get_history
JustSaved == mode = "history" /\ param.op = "save_history"
JustRead == mode = "history" /\ param.op = "get_history"

\* the pair of the last call, and what the store holds for it
CalledPair == <<param.user_id, param.session_id>>
HistoryOf(s, pair) == s.store[combined_session_id(pair[1], pair[2])]

\* a successful save put its two items after the items that were there,
\* and every history only ever grows at its end
AppendedTwo ==
    JustSaved /\ ret = <<TRUE>> =>
        /\ HistoryOf(state, CalledPair) = HistoryOf(twin_state, CalledPair) \o param.items
        /\ param.items[1].role = "user" /\ param.items[2].role = "assistant"
GrowsAtEnd ==
    JustSaved =>
        \A p \in UserIds \X SessionIds :
            /\ Len(HistoryOf(twin_state, p)) <= Len(HistoryOf(state, p))
            /\ SubSeq(HistoryOf(state, p), 1, Len(HistoryOf(twin_state, p)))
                   = HistoryOf(twin_state, p)

\* failures are answered, not raised
FailuresAnswered ==
    /\ mode = "history" => raised = ""
    /\ JustSaved /\ param.fails # "nothing" => ret = <<FALSE>>
    /\ JustRead /\ param.fails # "nothing" => ret = <<>>

\* C32: the history of a (user_id, session_id) is append-only: a successful
\* save_history appends exactly the user item then the assistant item after
\* the existing items; get_history returns the empty sequence for a pair never
\* saved and on any store failure; save_history returns False on failure.
C32_AppendOnlyHistory ==
    /\ AppendedTwo
    /\ GrowsAtEnd
    /\ FailuresAnswered
    /\ JustRead /\ state.saved[CalledPair] = <<>> => ret = <<>>

\* C37: histories are isolated per (user_id, session_id): get_history for one
\* pair never returns an item that was saved under another pair.
C37_HistoriesIsolated ==
    JustRead => \A i \in 1..Len(ret) : ret[i] \in Range(state.saved[CalledPair])

-----------------------------------------------------------------------------
(* The generation stream of run_stream and its consumer.  run_stream is an
   async generator: it runs only while the consumer awaits its next fragment,
   and is otherwise suspended at a yield.  A consumer that stops reading
   leaves or closes the generator; the event loop then closes it (aclose
   throws GeneratorExit at the yield) and finalizes the abandoned
   self.llm.astream(prompt) iterator, which gives the connection back. *)

MaxReads == 5      \* chunks read from one generation stream

\* the classes caught by "except Exception": GeneratorExit is a BaseException
Caught_bare(exception) == TRUE
Caught(exception) == exception \in {"Exception"}

ConsumeInit ==
    /\ keepUndeclared = TRUE
    /\ mode = "consume"
    /\ pc = "created"
    /\ state = [consumer |-> "reading", stream |-> "unopened", got |-> 0, reads_at_stop |-> 0]
    /\ param = <<>>
    /\ executed = <<>>
    /\ decision_text = <<>>
    /\ handed_plan = <<>>
    /\ log = <<>>
    /\ raised = ""
    /\ ret = <<>>
    /\ chunks = <<>>
    /\ yielded = <<>>
    /\ twin_pc = "idle"
    /\ twin_state = <<>>

\* the consumer awaits the next fragment: the generator resumes; the first
\* time it opens the generation stream
consumer_next ==
    /\ mode = "consume"
    /\ state.consumer = "reading"
    /\ pc \in {"created", "at_yield", "at_handler_yield"}
    /\ IF pc = "at_handler_yield"
       THEN /\ pc' = "finished"
            /\ state' = [state EXCEPT !.consumer = "done"]
       ELSE /\ pc' = "reading"
            /\ state' = [state EXCEPT !.stream = IF pc = "created" THEN "open" ELSE @]
    /\ UNCHANGED <<twin_pc, twin_state, keepUndeclared, mode, param, executed, decision_text,
                   handed_plan, log, raised, ret, chunks, yielded>>

\* one iteration of "async for chunk in self.llm.astream(prompt)": a chunk with
\* content is yielded, one without is skipped; the end of the stream finishes
\* the generator; an exception of the stream is caught and yielded as text
astream_read ==
    /\ mode = "consume"
    /\ pc = "reading"
    /\ \/ /\ Len(chunks) < MaxReads
          /\ \E content \in ChunkContents :
               /\ chunks' = Append(chunks, content)
               /\ IF content # ""
                  THEN /\ yielded' = Append(yielded, content)
                       /\ pc' = "at_yield"
                       /\ state' = [state EXCEPT !.got = @ + 1]
                  ELSE /\ yielded' = yielded
                       /\ pc' = pc
                       /\ state' = state
       \/ /\ chunks' = chunks
          /\ yielded' = yielded
          /\ pc' = "finished"
          /\ state' = [state EXCEPT !.stream = "released", !.consumer = "done"]
       \/ /\ Caught("Exception")
          /\ chunks' = chunks
          /\ yielded' = Append(yielded, "Error: " \o "stream interrupted")
          /\ pc' = "at_handler_yield"
          /\ state' = [state EXCEPT !.stream = "released", !.got = @ + 1]
    /\ UNCHANGED <<twin_pc, twin_state, keepUndeclared, mode, param, executed, decision_text,
                   handed_plan, log, raised, ret>>

\* the consumer stops reading after the fragments it has got
consumer_stop ==
    /\ mode = "consume"
    /\ state.consumer = "reading"
    /\ pc \in {"at_yield", "at_handler_yield"}
    /\ state' = [state EXCEPT !.consumer = "stopped", !.reads_at_stop = Len(chunks)]
    /\ UNCHANGED <<twin_pc, twin_state, keepUndeclared, mode, pc, param, executed,
                   decision_text, handed_plan, log, raised, ret, chunks, yielded>>

\* the generator left by the consumer is closed: GeneratorExit is thrown at the
\* yield it is suspended at.  Not being caught, it ends the generator, and the
\* stream iterator is left without an owner.  A handler that caught it would
\* yield again and keep the generator, and the stream, suspended.
aclose ==
    /\ mode = "consume"
    /\ state.consumer = "stopped"
    /\ pc \in {"at_yield", "at_handler_yield"}
    /\ IF pc = "at_yield" /\ Caught("GeneratorExit")
       THEN /\ pc' = "at_handler_yield"
            /\ state' = [state EXCEPT !.consumer = "closed"]
            /\ raised' = "RuntimeError: async generator ignored GeneratorExit"
       ELSE /\ pc' = "finished"
            /\ state' = [state EXCEPT !.consumer = "closed",
                                      !.stream = IF @ = "open" THEN "orphaned" ELSE @]
            /\ raised' = raised
    /\ UNCHANGED <<twin_pc, twin_state, keepUndeclared, mode, param, executed, decision_text,
                   handed_plan, log, ret, chunks, yielded>>

\* the event loop finalizes the abandoned stream iterator: the connection is released
astream_finalize ==
    /\ mode = "consume"
    /\ state.stream = "orphaned"
    /\ state' = [state EXCEPT !.stream = "released"]
    /\ UNCHANGED <<twin_pc, twin_state, keepUndeclared, mode, pc, param, executed,
                   decision_text, handed_plan, log, raised, ret, chunks, yielded>>

ConsumeNext ==
    \/ consumer_next
    \/ astream_read
    \/ consumer_stop
    \/ aclose
    \/ astream_finalize

\* the event loop runs the close and the finalizer it has scheduled
ConsumeSpec ==
    /\ ConsumeInit
    /\ [][ConsumeNext]_vars
    /\ WF_vars(aclose)
    /\ WF_vars(astream_finalize)

\* the consumer has stopped reading
ConsumerStopped == mode = "consume" /\ state.consumer \in {"stopped", "closed"}

\* the connection of the generation stream is released
ConnectionReleased == mode = "consume" /\ state.stream = "released"

-----------------------------------------------------------------------------
(* The messages sent for generation: _generate_response_node of run_sync and
   the tail of run_stream *)

\* chat_generation_system_prompt: the "chat" template rendered with its inputs
chat_generation_system_prompt(tool_results, language, user_profile) ==
    [template |-> "chat", tool_results |-> tool_results, language |-> language,
     user_profile |-> user_profile]

\* build_langchain_template: the system message, one message per history turn,
\* the user turn; iterating a history that is None raises TypeError
build_langchain_template(user_input, conversation_history, system_prompt) ==
    IF conversation_history.t = "none"
    THEN Raise("'NoneType' object is not iterable")
    ELSE Ok(<<[type |-> "system", prompt |-> system_prompt]>>
            \o [i \in 1..Len(conversation_history.v) |->
                   [type |-> IF conversation_history.v[i].role = "user" THEN "human" ELSE "ai",
                    content |-> conversation_history.v[i].content]]
            \o <<[type |-> "human", content |-> user_input]>>)

\* [tc.result for tc in tool_calls]
ResultsOf(tool_calls) == [i \in 1..Len(tool_calls) |-> tool_calls[i].result]

\* the prompt _generate_response_node builds from a state
SyncGenerationPrompt(s) ==
    LET user_question == Get(s, "user_question", "")
        conversation_history == PyList(Get(s, "conversation_history", <<>>))
        tool_calls == Get(s, "tool_calls", <<>>)
        system_prompt == chat_generation_system_prompt(
                             ResultsOf(tool_calls),
                             IF Has(s, "language") THEN PyStr(s["language"]) ELSE PyNone,
                             IF Has(s, "user_profile") THEN PyDict(s["user_profile"])
                             ELSE PyStr(""))
    IN  build_langchain_template(user_question, conversation_history, system_prompt)

\* the prompt run_stream builds from the final state of the graph and its own arguments
StreamGenerationPrompt(final_state, user_profile, language) ==
    LET user_question == Get(final_state, "user_question", "")
        conversation_history == Get(final_state, "memory_conversation", PyList(<<>>))
        tool_calls_result == Get(final_state, "tool_calls", <<>>)
        language_from_state == Get(final_state, "language", language)
        system_prompt == chat_generation_system_prompt(
                             ResultsOf(tool_calls_result), PyStr(language_from_state),
                             PyDict(user_profile))
    IN  build_langchain_template(user_question, conversation_history, system_prompt)

\* a chat streaming run whose graph has given its final state
StreamAboutToGenerate == mode = "stream" /\ pc = "END" /\ DOMAIN state # {}

\* C34: for the same final graph state, run_stream sends the LLM the message
\* list that _generate_response_node sends in run_sync: same system prompt
\* inputs, same history turns, same user turn.
C34_SameGenerationMessages ==
    StreamAboutToGenerate =>
        StreamGenerationPrompt(state, param.user_profile, param.language)
            = SyncGenerationPrompt(state)

-----------------------------------------------------------------------------
(* Who executes tools in a chat run *)

\* search_info invoked search_knowledge_base itself: the invocation comes
\* before any tool binding of execute_tools
SearchInfoInvoked ==
    \E i \in 1..Len(log) :
        /\ log[i] = "invoke:search_knowledge_base"
        /\ \A j \in 1..(i - 1) : log[j] # "bind_tools"

\* execute_tools invoked a tool: an invocation after its tool binding
ExecuteToolsInvoked ==
    \E j \in 1..Len(log), i \in 1..Len(log) :
        j < i /\ log[j] = "bind_tools" /\ StartsWith(log[i], "invoke:")

\* the state search_info is about to run in has a plan
PlanExists == Has(state, "plan") /\ state["plan"] # ""

\* C35: no double execution in a chat run: tools are executed by at most one of
\* search_info and execute_tools, and a search_info that finds a plan makes no
\* external call and leaves tool_calls and tool_results as they are.
C35_NoDoubleExecution ==
    /\ [](ChatRun => ~(SearchInfoInvoked /\ ExecuteToolsInvoked))
    /\ [][ChatRun /\ pc = "search_info" /\ PlanExists =>
              /\ log' = log
              /\ Restrict(state', {"tool_calls", "tool_results"})
                     = Restrict(state, {"tool_calls", "tool_results"})]_vars

-----------------------------------------------------------------------------
(* The mapping returned by execute_tool_calls *)

\* the tool names of the mapping, in insertion order
NamesIn(items) == [i \in 1..Len(items) |-> items[i][1]]

\* the last requested call with a tool name
LastCall(name) ==
    CHOOSE i \in 1..Len(RequestedCalls) :
        /\ RequestedCalls[i] = name
        /\ \A j \in (i + 1)..Len(RequestedCalls) : RequestedCalls[j] # name

NoToolCallsEntry == << <<"info", "No tool calls found in response.">> >>

ToolInvoked == \E i \in 1..Len(log) : StartsWith(log[i], "invoke:")

\* C36: the mapping returned by execute_tool_calls has exactly one entry per
\* distinct requested tool name, holding the outcome of the last requested call
\* with that name; it is the single "info" entry, with no tool invoked,
\* exactly when the response requests no tool call.
C36_OneEntryPerRequestedName ==
    Dispatched =>
        /\ Len(ret) = 1
        /\ IF Len(RequestedCalls) = 0
           THEN ret[1] = NoToolCallsEntry /\ ~ToolInvoked
           ELSE /\ ret[1] # NoToolCallsEntry
                /\ Range(NamesIn(ret[1])) = Range(RequestedCalls)
                /\ Len(ret[1]) = Cardinality(Range(RequestedCalls))
                /\ \A name \in Range(RequestedCalls) : OutcomeRecorded(LastCall(name))

\* two requested calls of one tool: one entry, that of the second call
C36_Witness ==
    /\ Dispatched
    /\ RequestedCalls = <<"search_knowledge_base", "search_knowledge_base">>
    /\ param.outcome[1].t = "raise"
    /\ param.outcome[2].t = "ok"
    /\ ret = << << <<"search_knowledge_base", "result 2">> >> >>

-----------------------------------------------------------------------------
(* What download_document gives *)

\* what download_document did for the k-th document of the run
Downloaded(k) ==
    download_document(state.clean_documents[k], param.max_download_retries,
                      state.done[k].meta, state.done[k].attempts)

\* the content requests among the events of a download
ContentRequestsOf(d) == SelectSeq(d.log, LAMBDA ev : ev.op = "GET content")

\* the first content request that got a response, 0 when none did
FirstAnswered(k) ==
    LET answered == {j \in 1..Len(state.done[k].attempts) :
                         state.done[k].attempts[j] # "request_error"}
    IN  IF answered = {} THEN 0 ELSE CHOOSE j \in answered : \A i \in answered : j <= i

\* the metadata answer names a content type that ends the filename
ContentTypeMatches(k) ==
    /\ state.done[k].meta.t = "ok"
    /\ "content_type" \in DOMAIN state.done[k].meta.v
    /\ state.done[k].meta.v.content_type # ""
    /\ "filename" \in DOMAIN state.done[k].meta.v
    /\ EndsWith(state.done[k].meta.v.filename, "." \o state.done[k].meta.v.content_type)

\* download_document returned a (file path, metadata) pair for a file that was
\* written with content and whose content type matches its name
ReturnedPair(k) ==
    /\ Downloaded(k).t = "ok"
    /\ Downloaded(k).v # PyNone
    /\ ContentTypeMatches(k)
    /\ Downloaded(k).v.metadata.content_type = state.done[k].meta.v.content_type
    /\ FirstAnswered(k) > 0
    /\ state.done[k].attempts[FirstAnswered(k)] = "ok"

RaisedProcessingError(k) == Downloaded(k).t = "raise" /\ Downloaded(k).type = "ProcessingError"

\* C38: for every configuration download_document either returns a (file path,
\* metadata) pair for a non-empty file with a matching, non-empty content type,
\* or raises ProcessingError; a missing or mismatching content type is rejected
\* before any content request, and a zero-byte download is not retried.
C38_DownloadReturnsPairOrProcessingError ==
    Ingesting =>
        \A k \in 1..Len(state.done) :
            /\ ReturnedPair(k) \/ RaisedProcessingError(k)
            /\ (state.done[k].meta.t = "ok" /\ ~ContentTypeMatches(k)) =>
                   /\ RaisedProcessingError(k)
                   /\ Len(ContentRequestsOf(Downloaded(k))) = 0
            /\ (ContentTypeMatches(k) /\ FirstAnswered(k) > 0
                    /\ state.done[k].attempts[FirstAnswered(k)] = "empty") =>
                   /\ RaisedProcessingError(k)
                   /\ Len(ContentRequestsOf(Downloaded(k))) = FirstAnswered(k)

-----------------------------------------------------------------------------
(* get_text_embedding request by request, and the chunk record built from
   what it gives *)

MaxEmbedRetries == 2    \* largest max_chunking_retries configured; 2 is the default

\* the vector the embedding endpoint computes for a text
VectorOf(text) == PyList(<<text>>)

\* the answers of the embedding endpoint to one request for a text
EmbedAnswers(text) ==
    {Failed(k) : k \in RequestFailures}
        \cup {NotJson,
              Body(PyList(<<[emb |-> VectorOf(text)]>>)),
              Body(PyList(<<[emb |-> PyList(<<>>)]>>)),
              Body(PyList(<<[emb |-> PyNone]>>)),
              Body(PyList(<<[detail |-> PyNone]>>)),
              Body(PyList(<<>>)),
              Body(PyDict([emb |-> VectorOf(text)])),
              Body(PyNone)}

RECURSIVE EmbedAttempts(_, _, _, _, _)
\* "for attempt in range(max_retries)" of get_text_embedding, from the given
\* attempt on; answers[k] is the answer to the k-th request; requests counts
\* the requests made
EmbedAttempts(text, attempt, max_retries, answers, json_error) ==
    IF attempt >= max_retries
    THEN [t |-> "ok", v |-> PyNone, requests |-> attempt]
    ELSE LET answer == answers[attempt + 1]
             result == answer.body
         IN  IF \/ answer.kind \in RequestFailures
                \/ answer.kind = "not_json" /\ json_error = "RequestException"
             THEN IF attempt = max_retries - 1
                  THEN [t |-> "raise", type |-> "ProcessingError",
                        e |-> "Embedding failed: " \o answer.kind, requests |-> attempt + 1]
                  ELSE EmbedAttempts(text, attempt + 1, max_retries, answers, json_error)
             ELSE IF answer.kind = "not_json"
             THEN [t |-> "raise", type |-> "ValueError", e |-> "not JSON",
                   requests |-> attempt + 1]
             ELSE IF \/ ~JsonTruthy(result)
                     \/ result.t # "list"
                     \/ ~Has(result.v[1], "emb")
                     \/ ~JsonTruthy(result.v[1].emb)
             THEN [t |-> "raise", type |-> "ProcessingError",
                   e |-> "Invalid embedding response", requests |-> attempt + 1]
             ELSE [t |-> "ok", v |-> result.v[1].emb, requests |-> attempt + 1]

\* the chunk records after the loop body of _process_single_document for one
\* chunk: a record with the embedding as its vector, or nothing when
\* get_text_embedding raised
ChunkRecords(document_id, session_id, i, page_content, embedding) ==
    IF embedding.t = "raise" THEN <<>>
    ELSE <<[chunk_id |-> ChunkIdOf(document_id, i, page_content),
            document_id |-> document_id,
            document_title |-> GoodMeta.filename,
            chunk_text |-> page_content,
            vector |-> embedding.v,
            chunk_index |-> i,
            session_id |-> session_id]>>

EmbedInit ==
    /\ keepUndeclared = TRUE
    /\ mode = "embed"
    /\ pc = "start"
    /\ state = <<>>
    /\ \E max_chunking_retries \in 0..MaxEmbedRetries :
         param \in { [document_id |-> "d1", session_id |-> "s1", i |-> 0,
                      text |-> ChunkText("d1", 0),
                      max_chunking_retries |-> max_chunking_retries,
                      answers |-> a, json_error |-> j]
                       : a \in [1..max_chunking_retries -> EmbedAnswers(ChunkText("d1", 0))],
                         j \in JsonErrorTypes }
    /\ executed = <<>>
    /\ decision_text = <<>>
    /\ handed_plan = <<>>
    /\ log = <<>>
    /\ raised = ""
    /\ ret = <<>>
    /\ chunks = <<>>
    /\ yielded = <<>>
    /\ twin_pc = "idle"
    /\ twin_state = <<>>

\* the embedding of one chunk: get_text_embedding and the record made of it
embed_chunk ==
    /\ mode = "embed"
    /\ pc = "start"
    /\ LET embedding == EmbedAttempts(param.text, 0, param.max_chunking_retries,
                                      param.answers, param.json_error)
       IN  /\ state' = [embedding |-> embedding,
                        chunk_metadata |-> ChunkRecords(param.document_id, param.session_id,
                                                        param.i, param.text, embedding)]
           /\ log' = [k \in 1..embedding.requests |->
                          Event("POST context", param.text, k, <<>>)]
    /\ pc' = "embedded"
    /\ UNCHANGED <<twin_pc, twin_state, keepUndeclared, mode, param, executed, decision_text,
                   handed_plan, raised, ret, chunks, yielded>>

\* the document's records are handed to upload_chunks_batch when there are any
embed_upload ==
    /\ mode = "embed"
    /\ pc = "embedded"
    /\ IF Len(state.chunk_metadata) > 0
       THEN /\ chunks' = state.chunk_metadata
            /\ pc' = "upload"
       ELSE /\ chunks' = chunks
            /\ pc' = "returned"
    /\ UNCHANGED <<twin_pc, twin_state, keepUndeclared, mode, param, state, executed,
                   decision_text, handed_plan, log, raised, ret, yielded>>

EmbedNext ==
    \/ embed_chunk
    \/ embed_upload

EmbedSpec == EmbedInit /\ [][EmbedNext]_vars

\* the endpoint returned this value as the embedding in one of its answers
ReturnedByEndpoint(v) ==
    \E k \in 1..Len(param.answers) :
        /\ param.answers[k].kind = "body"
        /\ param.answers[k].body = PyList(<<[emb |-> v]>>)

\* a non-empty vector that the endpoint returned for the chunk's text
GoodVector(v) == v = VectorOf(param.text) /\ ReturnedByEndpoint(v)

\* C39: for every configuration, every chunk record that reaches
\* upload_chunks_batch carries a non-empty embedding vector that the endpoint
\* returned for the chunk's text; get_text_embedding makes at most
\* max_chunking_retries requests per chunk and returns such a vector or raises.
C39_UploadedChunksCarryEndpointVector ==
    (mode = "embed" /\ pc # "start") =>
        /\ Len(log) <= param.max_chunking_retries
        /\ state.embedding.t = "raise" \/ GoodVector(state.embedding.v)
        /\ \A k \in 1..Len(chunks) : GoodVector(chunks[k].vector)

====
